---- MODULE Spec2Model ----
(***************************************************************************)
(* Verification model of ha-xcomfort-bridge.                               *)
(*                                                                         *)
(* Part I  : the stale heater power watchdog of sensor.py                  *)
(*           (XComfortHeaterPowerSensor / XComfortHeaterEnergySensor),     *)
(*           fed by Heater.handle_state, the matched room's state cell and *)
(*           the periodic tick.                                            *)
(* Part II : the state cells of the rockers (rx BehaviorSubject), the      *)
(*           companion search of device_rocker.py and the construction of  *)
(*           rockers and their component in any arrival order.             *)
(* Part III: the reducers of Shade, Appliance (with its switch entity),    *)
(*           DoorWindowSensor, Light, RcTouch and Heater, and the shade's  *)
(*           commands.                                                     *)
(* Part IV : the set-up of the event platform (event.py) and the room      *)
(*           matcher of sensor.py with _build_device_sensors.              *)
(* Part V  : the hub's initial load (hub.py) with the platforms' set-up    *)
(*           tasks, and the presets of the room climate entity             *)
(*           (climate.py).                                                 *)
(*                                                                         *)
(* Units: power is kept in tenths of a watt (0.5 W = 5), time in whole     *)
(* seconds of time.monotonic(), energy in tenth-watt-seconds               *)
(* (1 kWh = 36 000 000 tenth-watt-seconds).  Python's None is the integer  *)
(* None (-1); every real reading is >= 0.                                  *)
(***************************************************************************)
EXTENDS Integers, Sequences, FiniteSets, TLC

\* ---------------------------------------------------------------- bounds
MaxTime == 21            \* the clock never passes this value
MaxSent == 2             \* movement commands are called only while fewer than
                         \* this many messages were handed to the transport
MaxEmits == 3            \* a payload is delivered to a rocker only while every
                         \* cell has emitted fewer than this many values
TimeStep == 10           \* seconds that pass between two observed instants
MaxRooms == 2            \* the hub has at most this many rooms
RecursionLimit == 6      \* on_next calls one handler may nest before the
                         \* interpreter raises RecursionError

\* ------------------------------------------------------ program constants
FALLBACK_POWER_THRESHOLD_W == 5     \* 0.5 W, in tenths of a watt
FALLBACK_ZERO_WINDOW_SEC == 20

None == -1

Sensors == {"power", "energy"}

\* the heater's sensors the watchdog has no part in
ReadingSensors == {"temperature", "heating_demand"}

\* power readings of heater and room, tenths of a watt: 0.5 W (the threshold
\* itself) and 0.6 W (just above it)
PowerValues == {5, 6}

\* what async_get_last_sensor_data hands back: nothing, or a saved total
SavedStates == {None, 360}

\* ------------------------------------------------------------ heater cell
\* an info value is a string: numeric (its number) or not numeric
NotNumeric == -2

\* a heater payload; has_info is ("info" in payload), info its entries
\* [text, value] (text a DeviceStateUpdateText code), None marks a missing key
HeaterPayload(has_info, info, dimmvalue, power) ==
    [has_info |-> has_info, info |-> info, dimmvalue |-> dimmvalue, power |-> power]

\* the payloads the bridge delivers to the heater in this model
HeaterPayloads ==
    {HeaterPayload(FALSE, <<>>, None, p) : p \in PowerValues}
    \cup {HeaterPayload(TRUE, <<[text |-> "DEVICE_TEMPERATURE", value |-> 21]>>, None, p) :
             p \in {None, 6}}
    \cup {HeaterPayload(FALSE, <<>>, 50, None),
          HeaterPayload(TRUE, <<[text |-> "OTHER", value |-> 21]>>, None, None),
          HeaterPayload(TRUE, <<[text |-> "DIMM_VALUE", value |-> NotNumeric]>>, None, 6)}

\* the value of a state cell before the first emission (BehaviorSubject(None))
NoState == [present |-> FALSE]

HeaterState(device_temperature, heating_demand, power) ==
    [present |-> TRUE, device_temperature |-> device_temperature,
     heating_demand |-> heating_demand, power |-> power]

\* getattr(state, "power", None)
PowerOf(st) == IF st.present THEN st.power ELSE None

VARIABLES
    now,              \* time.monotonic()
    stale_protection, \* option CONF_HEATER_POWER_STALE_PROTECTION
    room,             \* TRUE iff a room was matched to the heater
    heater_state,     \* Heater.state (the heater's cell): last emitted snapshot
    state,            \* sensor -> self._state
    room_zero_since,  \* sensor -> self._room_zero_since
    forced_zero,      \* sensor -> self._forced_zero
    unsub_tick,       \* sensor -> TRUE iff self._unsub_tick holds a registered tick
    lifecycle,        \* sensor -> "created" | "added" | "removed"
    update_time,      \* energy sensor: self._update_time
    consumption,      \* energy sensor: self._consumption
    reading_state,    \* temperature / heating-demand sensor -> self._state
    \* history variables, read by the properties only
    lastEvent,        \* the input processed by the last step
    lastHeaterPowerW, \* the last power reading the heater delivered (None: none yet)
    lowRunStart,      \* sensor -> start of the current run of room readings <= threshold
    owed              \* time integral of the corrected power in force since the
                      \* energy sensor last added to its accumulator

wvars == <<now, stale_protection, room, heater_state, state, room_zero_since,
           forced_zero, unsub_tick, lifecycle, update_time, consumption, reading_state,
           lastEvent, lastHeaterPowerW, lowRunStart, owed>>

\* Part II: the state cells of two rockers of one multisensor component, the
\* companion subscriptions between them and one entity per rocker
VARIABLES
    is_on,            \* rocker -> Rocker.is_on (0, 1 or None)
    temperature,      \* rocker -> Rocker.temperature
    humidity,         \* rocker -> Rocker.humidity
    payload,          \* rocker -> the "info" key of Rocker.payload (accumulated)
    sensor_device,    \* rocker -> Rocker._sensor_device (device id or None)
    rocker_state,     \* rocker -> Rocker.state (the rocker's cell): last emitted value
    observers,        \* rocker -> the subscribers of its cell, in subscription order
    entity_state,     \* entity -> XComfortRockerSensor._state
    devices,          \* bridge._devices: the registered rockers, in insertion order
    comp_known,       \* TRUE iff the rockers' component is in bridge._comps
    comp_observers,   \* the rockers subscribed to the component's cell, in order
    \* history variables, read by the properties only
    emitted,          \* rocker -> number of on_next calls on its cell so far
    received,         \* entity -> numbers of the emissions its callback was invoked with
    subscribed_at,    \* entity -> emitted[...] when it subscribed (None: not subscribed)
    reentered,        \* TRUE iff, during the last handler, on_next began on a cell
                      \* whose earlier on_next was still calling its observers
    attempted,        \* rocker -> TRUE iff, with its component and a companion
                      \* registered, it was constructed, its component was
                      \* updated or it handled a payload
    calls,            \* the calls of _on_sensor_device_update the last handler
                      \* made, in the order they returned: which rocker, whether
                      \* the parsed values equalled its cached ones, whether a
                      \* value was parsed, whether its cell emitted meanwhile
    raised,           \* TRUE iff the last handler ended by raising an exception
    overflow,         \* TRUE iff the last handler nested its on_next calls up
                      \* to the recursion limit (RecursionError)
    triggered,        \* rocker -> the event types its event entity triggered
    event_subscribed, \* rocker -> TRUE iff its event entity has subscribed
    delivered         \* rocker -> handle_state calls delivered to it since its
                      \* event entity subscribed

cvars == <<is_on, temperature, humidity, payload, sensor_device, rocker_state,
           observers, entity_state, devices, comp_known, comp_observers,
           emitted, received, subscribed_at, reentered, attempted, calls, raised,
           overflow, triggered, event_subscribed, delivered>>

\* shade, appliance switch, light, climate devices
VARIABLES
    shade_state,      \* Shade.__shade_state: the one ShadeState object of the shade
    shade_cell,       \* TRUE iff Shade.state holds (a reference to) that object
    sent,             \* messages handed to bridge.send_message, oldest first
    supports_go_to,   \* Shade.supports_go_to
    appliance_cell,   \* Appliance.state: the SwitchState object it holds, as it reads now
    switch_ref,       \* HASSXComfortSwitch._state: "none", "cell" (the object the
                      \* cell holds) or "own" (an object the entity created)
    switch_own,       \* is_on of the entity's own SwitchState object
    switch_subscribed,\* TRUE iff the entity subscribed to the appliance's cell
    switch_pending,   \* the command whose await has not returned yet (None: none)
    \* history variables, read by the properties only
    shade_snapshot,   \* the shade's first emitted snapshot, as it read when emitted
    shade_mentioned,  \* key -> value of the latest shade payload that carried the key
    shade_op,         \* the shade's last operation
    appliance_emitted \* is_on of the appliance's current snapshot, as emitted

VARIABLES
    light_state,      \* Light.state (the light's cell): last emitted LightState
    dimmable,         \* Light.dimmable
    rctouch_state,    \* RcTouch.state (its cell): last emitted RcTouchState
    \* history variables, read by the properties only
    light_prev,       \* the light's cell before the last Light.handle_state
    light_in,         \* the payload of the last Light.handle_state
    rctouch_prev,     \* RcTouch's cell before the last RcTouch.handle_state
    rctouch_in,       \* the payload of the last RcTouch.handle_state
    rctouch_emits,    \* TRUE iff the last RcTouch.handle_state called on_next
    heater_prev,      \* the heater's cell before the last Heater.handle_state
    heater_in,        \* the payload of the last Heater.handle_state
    heater_emits      \* TRUE iff the last Heater.handle_state called on_next

\* a door / window sensor
VARIABLES
    door_is_closed,   \* DoorWindowSensor.is_closed (True, False or None)
    door_is_open,     \* DoorWindowSensor.is_open
    door_cell,        \* DoorWindowSensor.state (its cell): last emitted value
    \* history variables, read by the properties only
    door_emitted,     \* number of on_next calls on the sensor's cell so far
    binary_in         \* the last payload a boolean device handled: the device
                      \* and the value of its key (None: key missing)

\* history variable, read by the properties only
VARIABLES
    handled           \* the device that handled the last payload, and whether
                      \* the payload carried none of the fields it recognises

bvars == <<door_is_closed, door_is_open, door_cell, door_emitted, binary_in>>

lvars == <<light_state, dimmable, light_prev, light_in>>

tvars == <<rctouch_state, rctouch_prev, rctouch_in, rctouch_emits>>

hvars == <<heater_prev, heater_in, heater_emits>>

svars == <<shade_state, shade_cell, sent, supports_go_to, shade_snapshot,
           shade_mentioned, shade_op>>

avars == <<appliance_cell, switch_ref, switch_own, switch_subscribed,
           switch_pending, appliance_emitted>>

\* Part IV: the set-up of the event platform and of the heater's sensors
VARIABLES
    hub_devices,      \* hub.devices: the ids of the hub's devices, in list order
    events,           \* the entities handed to async_add_entities, in order
    setup_done,       \* TRUE iff _wait_for_hub_then_setup has run
    rooms,            \* the names of the hub's rooms, in list order
    heater_name,      \* Heater.name
    heater_room_mapping, \* options: the room selected for the heater (None: auto)
    matched_room,     \* the room _build_device_sensors hands to the heater's
                      \* power and energy sensors (index into rooms, or None)
    built             \* TRUE iff _build_device_sensors has run

pvars == <<hub_devices, events, setup_done, rooms, heater_name,
           heater_room_mapping, matched_room, built>>

\* Part V: the hub's initial load and the set-up tasks of the platforms
VARIABLES
    has_done_initial_load, \* the asyncio.Event of the hub: TRUE iff set
    stored,           \* which of hub.devices, hub.rooms, hub.scenes load_devices
                      \* has assigned
    load_pc,          \* load_devices: 0 not called, 1..3 awaiting get_devices,
                      \* get_rooms, get_scenes, 4 returned
    setup_pc,         \* platform -> where its _wait_for_hub_then_setup task is:
                      \* "idle" (not created), "waiting" (suspended in wait()),
                      \* "woken" (wait() resolved, not yet resumed), "built"
    seen,             \* platform -> the lists stored when it read the hub (None:
                      \* it has not read yet)
    waited,           \* platform -> TRUE iff its wait() suspended the task
    hub_op            \* the last operation on the hub

uvars == <<has_done_initial_load, stored, load_pc, setup_pc, seen, waited, hub_op>>

\* the presets of the room climate entity
VARIABLES
    rctpreset,        \* HASSXComfortRoomClimate.rctpreset (a ClimateMode)
    rctstate,         \* .rctstate (a ClimateState)
    currentsetpoint,  \* .currentsetpoint, degrees Celsius
    room_temperature, \* .temperature
    room_humidity,    \* .humidity
    preset_pc,        \* async_set_preset_mode: 0 not running, 1 awaiting the
                      \* first send_message, 2 awaiting the second
    preset_call,      \* the running or last call: its argument, its locals and
                      \* the entity's fields when it was called
    climate_sent,     \* the payloads the running or last call handed to
                      \* bridge.send_message(SET_HEATING_STATE, ...), in order
    room_between,     \* TRUE iff a room state update was processed while the
                      \* running or last call was suspended
    climate_op        \* the last operation on the entity

kvars == <<rctpreset, rctstate, currentsetpoint, room_temperature, room_humidity,
           preset_pc, preset_call, climate_sent, room_between, climate_op>>

dvars == <<svars, avars, lvars, tvars, hvars, bvars, handled, pvars, uvars, kvars>>

vars == <<wvars, cvars, dvars>>

\* --------------------------------------------------- Heater.handle_state
\* the loop over payload["info"]: acc is [raised, device_temperature, heating_demand];
\* float() of a value that is not numeric raises ValueError and ends the handler
RECURSIVE HeaterInfoLoop(_, _)
HeaterInfoLoop(info, acc) ==
    IF info = <<>> \/ acc.raised THEN acc
    ELSE LET e == Head(info) IN
         IF e.text = "DEVICE_TEMPERATURE"
         THEN IF e.value = NotNumeric
              THEN [acc EXCEPT !.raised = TRUE]
              ELSE HeaterInfoLoop(Tail(info), [acc EXCEPT !.device_temperature = e.value])
         ELSE IF e.text = "DIMM_VALUE"
         THEN IF e.value = NotNumeric
              THEN [acc EXCEPT !.raised = TRUE]
              ELSE HeaterInfoLoop(Tail(info), [acc EXCEPT !.heating_demand = e.value])
         ELSE HeaterInfoLoop(Tail(info), acc)

\* Heater.handle_state up to the emit: [raised, emits, value]
HeaterHandleState(p) ==
    LET start == [raised |-> FALSE, device_temperature |-> None, heating_demand |-> None]
        acc == IF p.has_info THEN HeaterInfoLoop(p.info, start) ELSE start
        heating_demand == IF p.dimmvalue # None THEN p.dimmvalue
                          ELSE acc.heating_demand
        power == p.power
        any == acc.device_temperature # None \/ heating_demand # None \/ power # None
    IN [raised |-> acc.raised,
        emits |-> (~acc.raised) /\ any,
        value |-> HeaterState(acc.device_temperature, heating_demand, power)]

\* ------------------------------------------------------------- room cell
\* what the room's cell can deliver: no state, a state without a power
\* attribute, a state whose power is None, a state with a power reading
RoomStates ==
    {[present |-> FALSE, has_power |-> FALSE, power |-> None],
     [present |-> TRUE, has_power |-> FALSE, power |-> None]}
    \cup {[present |-> TRUE, has_power |-> TRUE, power |-> p] : p \in PowerValues \cup {None}}

\* TRUE iff the room state carries a power reading the watchdog looks at
HasReading(rs) == rs.present /\ rs.has_power /\ rs.power # None

\* the sensors whose constructor subscribed _room_state_change to the room
\* mutant of RoomSubscribed: the sensors subscribe whatever the options say
RoomSubscribed_Always == TRUE

RoomSubscribed == room /\ stale_protection

\* ------------------------------------- watchdog callbacks (both sensors)
\* mutant of StateChange: any heater snapshot with a power clears the flag
StateChange_ClearOnAnyPower(s, st) ==
    IF stale_protection /\ PowerOf(st) # None THEN FALSE ELSE forced_zero[s]

\* mutant of StateChange: the flag is never cleared by the heater
StateChange_NeverClears(s, st) == forced_zero[s]

\* _state_change: the new _forced_zero (self._state becomes st)
StateChange(s, st) ==
    IF stale_protection /\ PowerOf(st) # None /\ PowerOf(st) <= FALLBACK_POWER_THRESHOLD_W
    THEN FALSE
    ELSE forced_zero[s]

\* mutant of RoomStateChange: the elapsed time is not compared with the window
RoomStateChange_NoWindow(s, rs) ==
    IF ~HasReading(rs)
    THEN [room_zero_since |-> room_zero_since[s], forced_zero |-> forced_zero[s]]
    ELSE LET rzs == IF rs.power <= FALLBACK_POWER_THRESHOLD_W
                    THEN (IF room_zero_since[s] = None THEN now ELSE room_zero_since[s])
                    ELSE None
             fz == IF rs.power <= FALLBACK_POWER_THRESHOLD_W THEN forced_zero[s] ELSE FALSE
             force == /\ rzs # None /\ rzs # 0
                      /\ PowerOf(state[s]) # None
                      /\ PowerOf(state[s]) > FALLBACK_POWER_THRESHOLD_W
                      /\ ~fz
         IN [room_zero_since |-> rzs, forced_zero |-> (fz \/ force)]

\* mutant of RoomStateChange: a reading above the threshold keeps the flag
RoomStateChange_KeepForced(s, rs) ==
    IF ~HasReading(rs)
    THEN [room_zero_since |-> room_zero_since[s], forced_zero |-> forced_zero[s]]
    ELSE LET rzs == IF rs.power <= FALLBACK_POWER_THRESHOLD_W
                    THEN (IF room_zero_since[s] = None THEN now ELSE room_zero_since[s])
                    ELSE None
             force == /\ rzs # None /\ rzs # 0
                      /\ PowerOf(state[s]) # None
                      /\ now - rzs >= FALLBACK_ZERO_WINDOW_SEC
                      /\ PowerOf(state[s]) > FALLBACK_POWER_THRESHOLD_W
                      /\ ~forced_zero[s]
         IN [room_zero_since |-> rzs, forced_zero |-> (forced_zero[s] \/ force)]

\* _room_state_change: the new [room_zero_since, forced_zero]
RoomStateChange(s, rs) ==
    IF ~HasReading(rs)
    THEN [room_zero_since |-> room_zero_since[s], forced_zero |-> forced_zero[s]]
    ELSE LET rzs == IF rs.power <= FALLBACK_POWER_THRESHOLD_W
                    THEN (IF room_zero_since[s] = None THEN now ELSE room_zero_since[s])
                    ELSE None
             fz == IF rs.power <= FALLBACK_POWER_THRESHOLD_W THEN forced_zero[s] ELSE FALSE
             truthy == rzs # None /\ rzs # 0
             elapsed == now - rzs
             force == /\ truthy
                      /\ PowerOf(state[s]) # None
                      /\ elapsed >= FALLBACK_ZERO_WINDOW_SEC
                      /\ PowerOf(state[s]) > FALLBACK_POWER_THRESHOLD_W
                      /\ ~fz
         IN [room_zero_since |-> rzs, forced_zero |-> (fz \/ force)]

\* mutant of CheckTick: the window must be exceeded, not merely reached
CheckTick_Strict(s) ==
    IF ~stale_protection \/ room_zero_since[s] = None THEN forced_zero[s]
    ELSE IF PowerOf(state[s]) = None THEN forced_zero[s]
    ELSE IF PowerOf(state[s]) <= FALLBACK_POWER_THRESHOLD_W THEN forced_zero[s]
    ELSE IF now - room_zero_since[s] <= FALLBACK_ZERO_WINDOW_SEC \/ forced_zero[s]
         THEN forced_zero[s]
    ELSE TRUE

\* mutant of CheckTick: the tick does not ask whether roomZeroSince is set
CheckTick_NoSince(s) ==
    IF ~stale_protection THEN forced_zero[s]
    ELSE IF PowerOf(state[s]) = None THEN forced_zero[s]
    ELSE IF PowerOf(state[s]) <= FALLBACK_POWER_THRESHOLD_W THEN forced_zero[s]
    ELSE TRUE

\* mutant of CheckTick: the tick only looks, it never forces
CheckTick_NoForce(s) == forced_zero[s]

\* _check_tick: the new _forced_zero
CheckTick(s) ==
    IF ~stale_protection \/ room_zero_since[s] = None THEN forced_zero[s]
    ELSE IF PowerOf(state[s]) = None THEN forced_zero[s]
    ELSE IF PowerOf(state[s]) <= FALLBACK_POWER_THRESHOLD_W THEN forced_zero[s]
    ELSE IF now - room_zero_since[s] < FALLBACK_ZERO_WINDOW_SEC \/ forced_zero[s]
         THEN forced_zero[s]
    ELSE TRUE

\* native_value of XComfortHeaterTemperatureSensor and of
\* XComfortHeaterHeatingDemandSensor
ReadingNativeValue(s) ==
    IF ~reading_state[s].present THEN None
    ELSE IF s = "temperature" THEN reading_state[s].device_temperature
    ELSE reading_state[s].heating_demand

\* mutant of PowerNativeValue: the flag is ignored
PowerNativeValue_Raw ==
    IF ~state["power"].present THEN None ELSE state["power"].power

\* XComfortHeaterPowerSensor.native_value
PowerNativeValue ==
    IF stale_protection /\ forced_zero["power"] THEN 0
    ELSE IF ~state["power"].present THEN None
    ELSE state["power"].power

\* XComfortHeaterEnergySensor.native_value with _calculate, read while
\* self._state is st and self._forced_zero is fz: the new [consumption,
\* update_time] (the value handed back is round(consumption, 3))
EnergyNativeValue(st, fz) ==
    IF st.present /\ st.power # None
    THEN LET power == IF stale_protection /\ fz THEN 0 ELSE st.power
             time_diff == now - update_time
         IN [consumption |-> consumption + power * time_diff, update_time |-> now]
    ELSE [consumption |-> consumption, update_time |-> update_time]

\* --------------------------------------------------- history bookkeeping
Event(kind, power, sensor) ==
    [kind |-> kind, power |-> power, sensor |-> sensor, was_forced |-> forced_zero["power"]]

\* the corrected power in force for the energy sensor
CorrectedPowerW ==
    IF stale_protection /\ forced_zero["energy"] THEN 0
    ELSE IF PowerOf(state["energy"]) = None THEN 0
    ELSE PowerOf(state["energy"])

\* ---------------------------------------------------------------- actions
WatchdogInit ==
    /\ now = 1
    /\ stale_protection \in BOOLEAN
    /\ room \in BOOLEAN
    /\ heater_state = NoState
    /\ state = [s \in Sensors |-> NoState]
    /\ reading_state = [s \in ReadingSensors |-> NoState]
    /\ room_zero_since = [s \in Sensors |-> None]
    /\ forced_zero = [s \in Sensors |-> FALSE]
    /\ unsub_tick = [s \in Sensors |-> FALSE]
    /\ lifecycle = [s \in Sensors |-> "created"]
    /\ update_time = 1
    /\ consumption = 0
    /\ lastEvent = [kind |-> "init", power |-> None, sensor |-> "-",
                    was_forced |-> FALSE]
    /\ lastHeaterPowerW = None
    /\ lowRunStart = None
    /\ owed = 0

\* the bridge delivers a payload to the heater: Heater.handle_state, and inside
\* its emit the _state_change of the power sensor, then of the energy sensor
HeaterUpdate(p) ==
    LET r == HeaterHandleState(p)
        should_update == state["energy"].present
    IN /\ lastEvent' = Event("heater", IF r.emits THEN r.value.power ELSE None, "-")
       /\ IF r.emits
          THEN /\ heater_state' = r.value
               /\ state' = [s \in Sensors |-> r.value]
               /\ reading_state' = [s \in ReadingSensors |-> r.value]
               /\ forced_zero' = [s \in Sensors |-> StateChange(s, r.value)]
               /\ lastHeaterPowerW' = IF r.value.power # None THEN r.value.power
                                      ELSE lastHeaterPowerW
               \* without stale protection async_write_ha_state() runs inside the
               \* callback and reads native_value; with it the write is scheduled
               /\ IF should_update /\ ~stale_protection /\ lifecycle["energy"] = "added"
                  THEN LET e == EnergyNativeValue(r.value, StateChange("energy", r.value))
                       IN /\ consumption' = e.consumption
                          /\ update_time' = e.update_time
                          /\ owed' = IF r.value.power # None THEN 0 ELSE owed
                  ELSE UNCHANGED <<consumption, update_time, owed>>
          ELSE UNCHANGED <<heater_state, state, reading_state, forced_zero,
                           lastHeaterPowerW, consumption, update_time, owed>>
       /\ UNCHANGED <<now, stale_protection, room, room_zero_since, unsub_tick,
                      lifecycle, lowRunStart>>

\* the room's cell emits rs: _room_state_change of each subscribed sensor
RoomUpdate(rs) ==
    /\ lastEvent' = Event("room", IF HasReading(rs) THEN rs.power ELSE None, "-")
    /\ lowRunStart' = IF ~HasReading(rs) THEN lowRunStart
                      ELSE IF rs.power > FALLBACK_POWER_THRESHOLD_W THEN None
                      ELSE IF lowRunStart = None THEN now ELSE lowRunStart
    /\ IF RoomSubscribed
       THEN /\ room_zero_since' = [s \in Sensors |-> RoomStateChange(s, rs).room_zero_since]
            /\ forced_zero' = [s \in Sensors |-> RoomStateChange(s, rs).forced_zero]
       ELSE UNCHANGED <<room_zero_since, forced_zero>>
    /\ UNCHANGED <<now, stale_protection, room, reading_state, heater_state, state, unsub_tick,
                   lifecycle, update_time, consumption, lastHeaterPowerW, owed>>

\* the host scheduler delivers the periodic tick of sensor s
Tick(s) ==
    /\ unsub_tick[s]
    /\ forced_zero' = [forced_zero EXCEPT ![s] = CheckTick(s)]
    /\ lastEvent' = Event("tick", None, s)
    /\ UNCHANGED <<now, stale_protection, room, reading_state, heater_state, state, room_zero_since,
                   unsub_tick, lifecycle, update_time, consumption, lastHeaterPowerW,
                   lowRunStart, owed>>

\* time passes
AdvanceTime ==
    /\ now + TimeStep <= MaxTime
    /\ now' = now + TimeStep
    /\ owed' = owed + CorrectedPowerW * TimeStep
    /\ lastEvent' = Event("other", None, "-")
    /\ UNCHANGED <<stale_protection, room, reading_state, heater_state, state, room_zero_since,
                   forced_zero, unsub_tick, lifecycle, update_time, consumption,
                   lastHeaterPowerW, lowRunStart>>

\* async_added_to_hass: the energy sensor takes over the total the host saved
\* (async_get_last_sensor_data), then either sensor registers its tick
AddedToHass(s) ==
    /\ lifecycle[s] = "created"
    /\ lifecycle' = [lifecycle EXCEPT ![s] = "added"]
    /\ unsub_tick' = [unsub_tick EXCEPT ![s] = (stale_protection /\ room)]
    /\ IF s = "energy"
       THEN \E saved \in SavedStates :
               consumption' = IF saved # None THEN saved ELSE consumption
       ELSE UNCHANGED consumption
    /\ lastEvent' = Event("other", None, "-")
    /\ UNCHANGED <<now, stale_protection, room, reading_state, heater_state, state, room_zero_since,
                   forced_zero, update_time, lastHeaterPowerW, lowRunStart, owed>>

\* mutant of WillRemoveFromHass: the tick stays registered
WillRemoveFromHass_KeepTick(s) ==
    /\ lifecycle[s] = "added"
    /\ lifecycle' = [lifecycle EXCEPT ![s] = "removed"]
    /\ unsub_tick' = unsub_tick
    /\ lastEvent' = Event("other", None, "-")
    /\ UNCHANGED <<now, stale_protection, room, reading_state, heater_state, state, room_zero_since,
                   forced_zero, update_time, consumption, lastHeaterPowerW,
                   lowRunStart, owed>>

\* async_will_remove_from_hass: cancels the tick
WillRemoveFromHass(s) ==
    /\ lifecycle[s] = "added"
    /\ lifecycle' = [lifecycle EXCEPT ![s] = "removed"]
    /\ unsub_tick' = [unsub_tick EXCEPT ![s] = FALSE]
    /\ lastEvent' = Event("other", None, "-")
    /\ UNCHANGED <<now, stale_protection, room, reading_state, heater_state, state, room_zero_since,
                   forced_zero, update_time, consumption, lastHeaterPowerW,
                   lowRunStart, owed>>

\* the host writes the energy entity's state: it reads native_value
ReadEnergy ==
    /\ lifecycle["energy"] = "added"
    /\ LET e == EnergyNativeValue(state["energy"], forced_zero["energy"])
       IN /\ consumption' = e.consumption
          /\ update_time' = e.update_time
    /\ owed' = IF PowerOf(state["energy"]) # None THEN 0 ELSE owed
    /\ lastEvent' = Event("read", None, "energy")
    /\ UNCHANGED <<now, stale_protection, room, reading_state, heater_state, state, room_zero_since,
                   forced_zero, unsub_tick, lifecycle, lastHeaterPowerW, lowRunStart>>

WatchdogNext ==
    \/ \E p \in HeaterPayloads : HeaterUpdate(p)
    \/ \E rs \in RoomStates : RoomUpdate(rs)
    \/ \E s \in Sensors : Tick(s)
    \/ AdvanceTime
    \/ \E s \in Sensors : AddedToHass(s)
    \/ \E s \in Sensors : WillRemoveFromHass(s)
    \/ ReadEnergy

\* ================================================================ Part II
\* Rocker (device_rocker.py) on BridgeDevice.state, an rx BehaviorSubject:
\* on_next stores the value and calls the observers subscribed at that moment
\* in subscription order; subscribe adds the observer and calls it with the
\* stored value.  All of it runs synchronously inside the handler, so each
\* handler is one step and the nested calls are unfolded by the operators.

Rockers == {1, 2}
\* bridge._devices in insertion order
Registry == <<1, 2>>
\* device -> comp_id: both rockers are buttons of component 7, a
\* PUSH_BUTTON_MULTI_SENSOR_2_CHANNEL push button
CompId == [r \in Rockers |-> 7]
CompType == [c \in {7} |-> "PUSH_BUTTON_MULTI_SENSOR_2_CHANNEL"]

\* Rocker.has_sensors, st.comp_known telling whether _comps.get finds the component
HasSensors(st, r) ==
    /\ st.comp_known
    /\ CompType[CompId[r]] \in {"PUSH_BUTTON_MULTI_SENSOR_1_CHANNEL",
                             "PUSH_BUTTON_MULTI_SENSOR_2_CHANNEL",
                             "PUSH_BUTTON_MULTI_SENSOR_4_CHANNEL"}
Entities == {1, 2}       \* the entity of rocker 1, of rocker 2

\* float("nan"): the value float() returns for the string "nan"
NaN == -3

\* != between two parsed values (float or None): NaN differs from everything,
\* itself included
FloatNe(a, b) == a = NaN \/ b = NaN \/ a # b

\* info arrays of rocker payloads: codes "1222" (temperature), "1223" (humidity)
RockerInfos ==
    {<<[text |-> "1222", value |-> 20]>>,
     <<[text |-> "1222", value |-> 21]>>,
     <<[text |-> "1223", value |-> 50], [text |-> "1222", value |-> NotNumeric]>>}

NoPayloadInfo == [has_info |-> FALSE, info |-> <<>>]

\* payloads delivered to a rocker: curstate (None: key missing) and info
RockerPayloads ==
    {[curstate |-> c, has_info |-> FALSE, info |-> <<>>] : c \in {0, 1, None}}
    \cup {[curstate |-> c, has_info |-> TRUE, info |-> i] : c \in {0, 1}, i \in RockerInfos}

\* the cell's value before the first emission (BehaviorSubject(None))
NoRockerState == [present |-> FALSE, seq |-> 0]

\* the plain boolean a rocker without sensors emits: it has no raw attribute
PlainState(on) ==
    [present |-> TRUE, has_raw |-> FALSE, is_on |-> on, temperature |-> None,
     humidity |-> None, raw |-> [own |-> 0, has_info |-> FALSE, info |-> <<>>],
     seq |-> 0]

\* RockerSensorState(is_on, temperature, humidity, raw); raw is either the
\* rocker's own payload dict (own = its id, read when used) or the payload of
\* one handle_state call (own = 0); seq numbers the emission
RockerSensorState(on, t, h, raw) ==
    [present |-> TRUE, has_raw |-> TRUE, is_on |-> on, temperature |-> t,
     humidity |-> h, raw |-> raw, seq |-> 0]

OwnRaw(r) == [own |-> r, has_info |-> FALSE, info |-> <<>>]
CallRaw(p) == [own |-> 0, has_info |-> p.has_info, info |-> p.info]

\* state.raw as the callback reads it
RawPayload(st, v) ==
    IF v.raw.own # 0 THEN st.payload[v.raw.own]
    ELSE [has_info |-> v.raw.has_info, info |-> v.raw.info]

\* the loop over payload["info"] in _on_sensor_device_update
RECURSIVE SensorInfoLoop(_, _)
SensorInfoLoop(info, acc) ==
    IF info = <<>> THEN acc
    ELSE LET e == Head(info) IN
         IF e.value = NotNumeric THEN SensorInfoLoop(Tail(info), acc)
         ELSE IF e.text = "1222"
         THEN SensorInfoLoop(Tail(info), [acc EXCEPT !.temperature = e.value])
         ELSE IF e.text = "1223"
         THEN SensorInfoLoop(Tail(info), [acc EXCEPT !.humidity = e.value])
         ELSE SensorInfoLoop(Tail(info), acc)

ParseSensorInfo(p) ==
    LET start == [temperature |-> None, humidity |-> None]
    IN IF p.has_info THEN SensorInfoLoop(p.info, start) ELSE start

\* the state the nested calls of one handler work on; active[c] is TRUE while
\* an on_next of cell c is calling its observers
CellState ==
    [is_on |-> is_on, temperature |-> temperature, humidity |-> humidity,
     payload |-> payload, sensor_device |-> sensor_device,
     rocker_state |-> rocker_state, observers |-> observers,
     entity_state |-> entity_state, devices |-> devices, comp_known |-> comp_known,
     comp_observers |-> comp_observers, emitted |-> emitted, received |-> received,
     active |-> [r \in Rockers |-> FALSE], reentered |-> FALSE, calls |-> <<>>,
     raised |-> FALSE, depth |-> 0, overflow |-> FALSE, triggered |-> triggered]

RockerObserver(r) == [kind |-> "rocker", id |-> r]
EntityObserver(e) == [kind |-> "entity", id |-> e]
EventObserver(e) == [kind |-> "event", id |-> e]

\* XComfortEvent._async_handle_event of a momentary rocker (a multisensor
\* rocker is one): state.is_on, or the boolean itself, picks the event type
AsyncHandleEvent(st, e, v) ==
    IF ~v.present THEN st
    ELSE [st EXCEPT !.triggered[e] =
             Append(@, IF v.is_on = 1 THEN "press_up" ELSE "press_down")]

\* XComfortRockerSensor._state_change
EntityStateChange(st, e, v) ==
    [st EXCEPT !.entity_state[e] = v, !.received[e] = Append(@, v.seq)]

RECURSIVE OnNext(_, _, _)
RECURSIVE Deliver(_, _, _, _, _)
RECURSIVE Callback(_, _, _)
RECURSIVE OnSensorDeviceUpdate(_, _, _)
RECURSIVE OnSensorDeviceUpdate_Always(_, _, _)

\* BehaviorSubject.on_next on the cell of rocker c; a call nested deeper than
\* the recursion limit raises RecursionError, which unwinds the whole handler
OnNext(st, c, v) ==
    LET n == st.emitted[c] + 1
        val == [v EXCEPT !.seq = n]
        st1 == [st EXCEPT !.rocker_state[c] = val, !.emitted[c] = n,
                          !.active[c] = TRUE, !.reentered = @ \/ st.active[c],
                          !.depth = @ + 1]
        st2 == Deliver(st1, c, val, st.observers[c], 1)
    IN IF st.overflow THEN st
       ELSE IF st.depth >= RecursionLimit
       THEN [st EXCEPT !.overflow = TRUE, !.raised = TRUE]
       ELSE [st2 EXCEPT !.active[c] = st.active[c], !.depth = st.depth]

\* the loop of on_next over the observers it found
Deliver(st, c, v, obs, i) ==
    IF i > Len(obs) \/ st.overflow THEN st
    ELSE Deliver(Callback(st, obs[i], v), c, v, obs, i + 1)

Callback(st, sub, v) ==
    IF sub.kind = "entity" THEN EntityStateChange(st, sub.id, v)
    ELSE IF sub.kind = "event" THEN AsyncHandleEvent(st, sub.id, v)
    ELSE LET st1 == OnSensorDeviceUpdate(st, sub.id, v)
             parsed == ParseSensorInfo(RawPayload(st, v))
         IN IF ~v.present \/ ~v.has_raw THEN st1
            ELSE [st1 EXCEPT !.calls = Append(@,
                     [rocker |-> sub.id,
                      same |-> ~FloatNe(parsed.temperature, st.temperature[sub.id])
                               /\ ~FloatNe(parsed.humidity, st.humidity[sub.id]),
                      known |-> parsed.temperature # None \/ parsed.humidity # None,
                      emits |-> st1.emitted[sub.id] > st.emitted[sub.id]])]

\* mutant of OnSensorDeviceUpdate: unless the rocker's cell is emitting, parsed
\* values are emitted whether or not they differ from the cached ones
OnSensorDeviceUpdate_Always(st, r, v) ==
    IF ~v.present THEN st
    ELSE IF ~v.has_raw THEN st
    ELSE LET parsed == ParseSensorInfo(RawPayload(st, v))
             st1 == [st EXCEPT !.temperature[r] = parsed.temperature,
                               !.humidity[r] = parsed.humidity]
         IN IF (parsed.temperature # None \/ parsed.humidity # None)
               /\ (~st.active[r] \/ FloatNe(parsed.temperature, st.temperature[r])
                                \/ FloatNe(parsed.humidity, st.humidity[r]))
            THEN OnNext(st1, r, RockerSensorState(st1.is_on[r], parsed.temperature,
                                                  parsed.humidity, OwnRaw(r)))
            ELSE st1

\* Rocker._on_sensor_device_update of rocker r
OnSensorDeviceUpdate(st, r, v) ==
    IF ~v.present THEN st
    ELSE IF ~v.has_raw THEN st
    ELSE LET parsed == ParseSensorInfo(RawPayload(st, v))
         IN IF FloatNe(parsed.temperature, st.temperature[r])
               \/ FloatNe(parsed.humidity, st.humidity[r])
            THEN LET st1 == [st EXCEPT !.temperature[r] = parsed.temperature,
                                       !.humidity[r] = parsed.humidity]
                 IN IF parsed.temperature # None \/ parsed.humidity # None
                    THEN OnNext(st1, r, RockerSensorState(st1.is_on[r], parsed.temperature,
                                                          parsed.humidity, OwnRaw(r)))
                    ELSE st1
            ELSE st

\* mutant of Subscribe: the stored value is not replayed
Subscribe_NoReplay(st, c, sub) ==
    [st EXCEPT !.observers[c] = Append(@, sub)]

\* BehaviorSubject.subscribe on the cell of rocker c
Subscribe(st, c, sub) ==
    LET st1 == [st EXCEPT !.observers[c] = Append(@, sub)]
    IN Callback(st1, sub, st1.rocker_state[c])

\* the first registered device other than r that carries r's comp_id (0: none)
Companion(st, r) ==
    LET found == {i \in 1..Len(st.devices) :
                     st.devices[i] # r /\ CompId[st.devices[i]] = CompId[r]}
    IN IF found = {} THEN 0
       ELSE st.devices[CHOOSE i \in found : \A j \in found : i <= j]

\* mutant of FindAndSubscribeSensorDevice: a bound rocker searches again
FindAndSubscribeSensorDevice_NoGuard(st, r) ==
    IF Companion(st, r) = 0 THEN st
    ELSE Subscribe([st EXCEPT !.sensor_device[r] = Companion(st, r)],
                   Companion(st, r), RockerObserver(r))

\* Rocker._find_and_subscribe_sensor_device
FindAndSubscribeSensorDevice(st, r) ==
    IF st.sensor_device[r] # None THEN st
    ELSE IF Companion(st, r) = 0 THEN st
    ELSE Subscribe([st EXCEPT !.sensor_device[r] = Companion(st, r)],
                   Companion(st, r), RockerObserver(r))

\* Rocker._on_component_update of rocker r
OnComponentUpdate(st, r) ==
    IF ~HasSensors(st, r) THEN st
    ELSE IF st.sensor_device[r] = None THEN FindAndSubscribeSensorDevice(st, r)
    ELSE st

\* Rocker.__init__ with curstate c in its payload (None: key missing): the
\* subscription to the component's cell replays into _on_component_update
RockerConstruct(st, r, c) ==
    LET st0 == [st EXCEPT !.is_on[r] = IF c = None THEN None ELSE IF c = 0 THEN 0 ELSE 1]
    IN IF HasSensors(st0, r)
       THEN LET st1 == [st0 EXCEPT !.comp_observers = Append(@, r)]
                st2 == OnComponentUpdate(st1, r)
            IN FindAndSubscribeSensorDevice(st2, r)
       ELSE st0

\* the bridge puts a constructed device into its registry
AddDevice(st, r) == [st EXCEPT !.devices = Append(@, r)]

\* on_next on the component's cell: each subscribed rocker in turn
RECURSIVE ComponentOnNext(_, _)
ComponentOnNext(st, i) ==
    IF i > Len(st.comp_observers) THEN st
    ELSE ComponentOnNext(OnComponentUpdate(st, st.comp_observers[i]), i + 1)

\* Rocker.handle_state (broadcast = True)
RockerHandleState(st, r, p) ==
    LET st1 == IF p.has_info
               THEN [st EXCEPT !.payload[r] = [has_info |-> TRUE, info |-> p.info]]
               ELSE st
    IN IF p.curstate = None
       THEN [st1 EXCEPT !.raised = TRUE]   \* payload["curstate"] raises KeyError
       ELSE LET st2 == [st1 EXCEPT !.is_on[r] = IF p.curstate = 0 THEN 0 ELSE 1]
                st3 == FindAndSubscribeSensorDevice(st2, r)
            IN IF HasSensors(st2, r)
               THEN OnNext(st3, r, RockerSensorState(st3.is_on[r], st3.temperature[r],
                                                     st3.humidity[r], CallRaw(p)))
               ELSE OnNext(st2, r, PlainState(st2.is_on[r]))

\* the variables take the values the handler left
Install(st) ==
    /\ is_on' = st.is_on
    /\ temperature' = st.temperature
    /\ humidity' = st.humidity
    /\ payload' = st.payload
    /\ sensor_device' = st.sensor_device
    /\ rocker_state' = st.rocker_state
    /\ observers' = st.observers
    /\ entity_state' = st.entity_state
    /\ devices' = st.devices
    /\ comp_known' = st.comp_known
    /\ comp_observers' = st.comp_observers
    /\ emitted' = st.emitted
    /\ received' = st.received
    /\ reentered' = st.reentered
    /\ calls' = st.calls
    /\ raised' = st.raised
    /\ overflow' = st.overflow
    /\ triggered' = st.triggered

\* both rockers constructed, rocker 1 first: it found no companion; rocker 2
\* found rocker 1 if its component was known by then
CellInit ==
    /\ is_on = [r \in Rockers |-> None]
    /\ temperature = [r \in Rockers |-> None]
    /\ humidity = [r \in Rockers |-> None]
    /\ payload = [r \in Rockers |-> NoPayloadInfo]
    /\ sensor_device \in {[r \in Rockers |-> None],
                          [r \in Rockers |-> IF r = 2 THEN 1 ELSE None]}
    /\ rocker_state = [r \in Rockers |-> NoRockerState]
    /\ observers = [r \in Rockers |->
                      IF r = 1 /\ sensor_device[2] = 1 THEN <<RockerObserver(2)>> ELSE <<>>]
    /\ entity_state = [e \in Entities |-> NoRockerState]
    /\ devices = Registry
    /\ comp_known = TRUE
    /\ comp_observers = IF sensor_device[2] = 1 THEN <<1, 2>> ELSE <<>>
    /\ emitted = [r \in Rockers |-> 0]
    /\ received = [e \in Entities |-> <<>>]
    /\ subscribed_at = [e \in Entities |-> None]
    /\ reentered = FALSE
    /\ calls = <<>>
    /\ raised = FALSE
    /\ overflow = FALSE
    /\ triggered = [r \in Rockers |-> <<>>]
    /\ event_subscribed = [r \in Rockers |-> FALSE]
    /\ delivered = [r \in Rockers |-> 0]
    /\ attempted = [r \in Rockers |-> r = 2 /\ sensor_device[2] = 1]

\* nothing constructed yet: the bulk snapshot has not arrived
ResolveInit ==
    /\ is_on = [r \in Rockers |-> None]
    /\ temperature = [r \in Rockers |-> None]
    /\ humidity = [r \in Rockers |-> None]
    /\ payload = [r \in Rockers |-> NoPayloadInfo]
    /\ sensor_device = [r \in Rockers |-> None]
    /\ rocker_state = [r \in Rockers |-> NoRockerState]
    /\ observers = [r \in Rockers |-> <<>>]
    /\ entity_state = [e \in Entities |-> NoRockerState]
    /\ devices = <<>>
    /\ comp_known = FALSE
    /\ comp_observers = <<>>
    /\ emitted = [r \in Rockers |-> 0]
    /\ received = [e \in Entities |-> <<>>]
    /\ subscribed_at = [e \in Entities |-> None]
    /\ reentered = FALSE
    /\ calls = <<>>
    /\ raised = FALSE
    /\ overflow = FALSE
    /\ triggered = [r \in Rockers |-> <<>>]
    /\ event_subscribed = [r \in Rockers |-> FALSE]
    /\ delivered = [r \in Rockers |-> 0]
    /\ attempted = [r \in Rockers |-> FALSE]

InRegistry(r) == \E i \in 1..Len(devices) : devices[i] = r

\* rocker r's component and a companion of r are both registered
Eligible(r) == comp_known /\ Companion(CellState, r) # 0

\* the bridge delivers payload p to rocker r
RockerUpdate(r, p) ==
    /\ InRegistry(r)
    /\ \A d \in Rockers : emitted[d] < MaxEmits
    /\ Install(RockerHandleState(CellState, r, p))
    /\ attempted' = [attempted EXCEPT ![r] = @ \/ (Eligible(r) /\ p.curstate # None)]
    /\ delivered' = [delivered EXCEPT ![r] = IF event_subscribed[r] THEN @ + 1 ELSE @]
    /\ UNCHANGED <<subscribed_at, event_subscribed>>

\* XComfortRockerSensor.async_added_to_hass: the entity of rocker e subscribes
EntitySubscribe(e) ==
    /\ InRegistry(e)
    /\ subscribed_at[e] = None
    /\ subscribed_at' = [subscribed_at EXCEPT ![e] = emitted[e]]
    /\ Install(Subscribe(CellState, e, EntityObserver(e)))
    /\ UNCHANGED <<attempted, event_subscribed, delivered>>

\* XComfortEvent.async_added_to_hass: the event entity of rocker e subscribes
EventAddedToHass(e) ==
    /\ InRegistry(e)
    /\ ~event_subscribed[e]
    /\ event_subscribed' = [event_subscribed EXCEPT ![e] = TRUE]
    /\ Install(Subscribe(CellState, e, EventObserver(e)))
    /\ UNCHANGED <<subscribed_at, attempted, delivered>>

\* the bulk snapshot brings rocker r: the bridge constructs and registers it
ConstructRocker(r, c) ==
    /\ ~InRegistry(r)
    /\ Install(AddDevice(RockerConstruct(CellState, r, c), r))
    /\ attempted' = [attempted EXCEPT ![r] = Eligible(r)]
    /\ UNCHANGED <<subscribed_at, event_subscribed, delivered>>

\* the bulk snapshot brings the rockers' component
AddComponent ==
    /\ ~comp_known
    /\ Install([CellState EXCEPT !.comp_known = TRUE])
    /\ UNCHANGED <<subscribed_at, attempted, event_subscribed, delivered>>

\* the component's cell emits an update of the component
ComponentUpdate ==
    /\ comp_known
    /\ Install(ComponentOnNext(CellState, 1))
    /\ attempted' = [r \in Rockers |-> attempted[r] \/ (InRegistry(r) /\ Eligible(r))]
    /\ UNCHANGED <<subscribed_at, event_subscribed, delivered>>

\* the payloads of the resolution scenarios
ResolvePayloads ==
    {[curstate |-> 1, has_info |-> FALSE, info |-> <<>>],
     [curstate |-> None, has_info |-> FALSE, info |-> <<>>],
     [curstate |-> 0, has_info |-> TRUE, info |-> <<[text |-> "1222", value |-> 20]>>]}

ResolveStep ==
    \/ \E r \in Rockers, c \in {None, 1} : ConstructRocker(r, c)
    \/ AddComponent
    \/ ComponentUpdate
    \/ \E r \in Rockers, p \in ResolvePayloads : RockerUpdate(r, p)

CellStep ==
    \/ \E r \in Rockers, p \in RockerPayloads : RockerUpdate(r, p)
    \/ \E e \in Entities : EntitySubscribe(e)

\* payloads whose temperature entry is an ordinary number or "nan"
LoopPayloads ==
    {[curstate |-> 1, has_info |-> h, info |-> IF h THEN <<[text |-> "1222", value |-> t]>>
                                              ELSE <<>>] :
        h \in BOOLEAN, t \in {20, NaN}}

\* payloads that carry the button's position
ButtonPayloads == {p \in RockerPayloads : p.curstate # None}

ButtonStep ==
    \/ \E r \in Rockers, p \in ButtonPayloads : RockerUpdate(r, p)
    \/ \E e \in Rockers : EventAddedToHass(e)

LoopStep ==
    \/ \E r \in Rockers, p \in LoopPayloads : RockerUpdate(r, p)
    \/ \E e \in Entities : EntitySubscribe(e)

\* =========================================================== Part III
\* ------------------------------------------------------------- the shade
\* a shade payload: None marks a missing key
ShadePositions == {0, 40, 100}
ShadePayloads ==
    [curstate : {None, 2}, shSafety : {None, 0, 1}, shPos : {None} \cup ShadePositions]

\* ShadeState.__init__
NewShadeState ==
    [current_state |-> None, is_safety_enabled |-> None, position |-> None,
     raw |-> [curstate |-> None, shSafety |-> None, shPos |-> None]]

\* booleans of the shade, next to None
True == 1
False == 0

\* mutant of UpdateFromPartialStateUpdate: a payload replaces every field
UpdateFromPartialStateUpdate_Reset(st, p) ==
    [current_state |-> p.curstate,
     is_safety_enabled |-> IF p.shSafety = None THEN None
                           ELSE IF p.shSafety # 0 THEN True ELSE False,
     position |-> p.shPos,
     raw |-> [k \in DOMAIN st.raw |-> IF p[k] # None THEN p[k] ELSE st.raw[k]]]

\* ShadeState.update_from_partial_state_update
UpdateFromPartialStateUpdate(st, p) ==
    [current_state |-> IF p.curstate # None THEN p.curstate ELSE st.current_state,
     is_safety_enabled |-> IF p.shSafety # None
                           THEN (IF p.shSafety # 0 THEN True ELSE False)
                           ELSE st.is_safety_enabled,
     position |-> IF p.shPos # None THEN p.shPos ELSE st.position,
     raw |-> [k \in DOMAIN st.raw |-> IF p[k] # None THEN p[k] ELSE st.raw[k]]]

\* ShadeState.is_closed
IsClosed(st) ==
    IF st.position = None \/ (0 < st.position /\ st.position < 100) THEN None
    ELSE IF st.position = 100 THEN True ELSE False

\* what a holder of the shade's snapshot reads from it
ShadeFields(st) ==
    [current_state |-> st.current_state, is_safety_enabled |-> st.is_safety_enabled,
     position |-> st.position]

\* Shade.handle_state: the accumulator is updated in place and emitted
ShadeUpdate(p) ==
    /\ shade_state' = UpdateFromPartialStateUpdate(shade_state, p)
    /\ shade_cell' = TRUE
    /\ shade_snapshot' = IF shade_cell THEN shade_snapshot ELSE ShadeFields(shade_state')
    /\ shade_mentioned' = [k \in DOMAIN shade_mentioned |->
                             IF p[k] # None THEN p[k] ELSE shade_mentioned[k]]
    /\ shade_op' = "handle_state"
    /\ UNCHANGED <<sent, supports_go_to>>

\* mutant of SendState: the message goes out whatever the safety flag says
SendState_NoGuard(op, value) == Append(sent, [state |-> op, value |-> value])

\* Shade.send_state: the messages handed to the transport after the call
SendState(op, value) ==
    IF shade_state.is_safety_enabled = True THEN sent
    ELSE Append(sent, [state |-> op, value |-> value])

\* Shade.move_down
MoveDown ==
    /\ Len(sent) < MaxSent
    /\ sent' = SendState("CLOSE", None)
    /\ shade_op' = "move_down"
    /\ UNCHANGED <<shade_state, shade_cell, supports_go_to, shade_snapshot, shade_mentioned>>

\* Shade.move_up
MoveUp ==
    /\ Len(sent) < MaxSent
    /\ sent' = SendState("OPEN", None)
    /\ shade_op' = "move_up"
    /\ UNCHANGED <<shade_state, shade_cell, supports_go_to, shade_snapshot, shade_mentioned>>

\* Shade.move_stop
MoveStop ==
    /\ Len(sent) < MaxSent
    /\ sent' = IF shade_state.is_safety_enabled = True THEN sent
               ELSE SendState("STOP", None)
    /\ shade_op' = "move_stop"
    /\ UNCHANGED <<shade_state, shade_cell, supports_go_to, shade_snapshot, shade_mentioned>>

\* Shade.move_to_position: the assert raises unless go-to is supported and
\* the position lies in 0..100
MoveToPosition(position) ==
    /\ Len(sent) < MaxSent
    /\ sent' = IF supports_go_to /\ 0 <= position /\ position <= 100
               THEN SendState("GO_TO", position)
               ELSE sent
    /\ shade_op' = "move_to_position"
    /\ UNCHANGED <<shade_state, shade_cell, supports_go_to, shade_snapshot, shade_mentioned>>

ShadeInit ==
    /\ shade_state = NewShadeState
    /\ shade_cell = FALSE
    /\ sent = <<>>
    /\ supports_go_to \in BOOLEAN
    /\ shade_snapshot = ShadeFields(NewShadeState)
    /\ shade_mentioned = [curstate |-> None, shSafety |-> None, shPos |-> None]
    /\ shade_op = "init"

ShadeStep ==
    \/ \E p \in ShadePayloads : ShadeUpdate(p)
    \/ MoveDown
    \/ MoveUp
    \/ MoveStop
    \/ \E position \in {50, 101} : MoveToPosition(position)

\* ------------------------------------------- the appliance and its switch
\* an appliance payload carries "switch" (True / False) or lacks it (None)
AppliancePayloads == {None, True, False}

\* Appliance.handle_state, with _state_change of a subscribed switch entity
ApplianceUpdate(switch) ==
    IF switch = None
    THEN UNCHANGED avars
    ELSE /\ appliance_cell' = [present |-> TRUE, is_on |-> switch]
         /\ appliance_emitted' = switch
         /\ switch_ref' = IF switch_subscribed THEN "cell" ELSE switch_ref
         /\ UNCHANGED <<switch_own, switch_subscribed, switch_pending>>

\* HASSXComfortSwitch.async_added_to_hass: subscribe, the cell replays its value
SwitchAddedToHass ==
    /\ ~switch_subscribed
    /\ switch_subscribed' = TRUE
    /\ switch_ref' = IF appliance_cell.present THEN "cell" ELSE "none"
    /\ UNCHANGED <<appliance_cell, switch_own, switch_pending, appliance_emitted>>

\* HASSXComfortSwitch.async_turn_on / async_turn_off up to the await
SwitchTurn(on) ==
    /\ switch_pending = None
    /\ switch_pending' = on
    /\ UNCHANGED <<appliance_cell, switch_ref, switch_own, switch_subscribed,
                   appliance_emitted>>

\* the await returns: HASSXComfortSwitch._set_optimistic_state
SetOptimisticState ==
    /\ switch_pending # None
    /\ switch_pending' = None
    /\ IF switch_ref = "none"
       THEN /\ switch_ref' = "own"
            /\ switch_own' = switch_pending
            /\ UNCHANGED appliance_cell
       ELSE IF switch_ref = "cell"
       THEN /\ appliance_cell' = [appliance_cell EXCEPT !.is_on = switch_pending]
            /\ UNCHANGED <<switch_ref, switch_own>>
       ELSE /\ switch_own' = switch_pending
            /\ UNCHANGED <<switch_ref, appliance_cell>>
    /\ UNCHANGED <<switch_subscribed, appliance_emitted>>

ApplianceInit ==
    /\ appliance_cell = [present |-> FALSE, is_on |-> None]
    /\ switch_ref = "none"
    /\ switch_own = None
    /\ switch_subscribed = FALSE
    /\ switch_pending = None
    /\ appliance_emitted = None

ApplianceStep ==
    \/ \E switch \in AppliancePayloads : ApplianceUpdate(switch)
    \/ SwitchAddedToHass
    \/ \E on \in {True, False} : SwitchTurn(on)
    \/ SetOptimisticState

\* ------------------------------------------------- the door / window sensor
\* a door / window payload carries "curstate" or lacks it (None)
DoorPayloads == {None, 0, 1, 2}

\* DoorWindowSensor.handle_state
DoorUpdate(curstate) ==
    /\ door_emitted < MaxEmits
    /\ IF curstate # None
       THEN /\ door_is_closed' = IF curstate = 1 THEN True ELSE False
            /\ door_is_open' = IF curstate = 1 THEN False ELSE True
       ELSE UNCHANGED <<door_is_closed, door_is_open>>
    /\ door_cell' = [present |-> TRUE, value |-> door_is_closed']
    /\ door_emitted' = door_emitted + 1
    /\ binary_in' = [device |-> "door", key |-> curstate]

DoorInit ==
    /\ door_is_closed = None
    /\ door_is_open = None
    /\ door_cell = [present |-> FALSE, value |-> None]
    /\ door_emitted = 0
    /\ binary_in = [device |-> "none", key |-> None]

\* the payloads of the two boolean devices, and the appliance's switch entity
BinaryStep ==
    \/ (\E c \in DoorPayloads : DoorUpdate(c)) /\ UNCHANGED avars
    \/ (\E switch \in AppliancePayloads :
           /\ ApplianceUpdate(switch)
           /\ binary_in' = [device |-> "appliance", key |-> switch])
          /\ UNCHANGED <<door_is_closed, door_is_open, door_cell, door_emitted>>
    \/ (SwitchAddedToHass \/ (\E on \in {True, False} : SwitchTurn(on)) \/ SetOptimisticState)
          /\ binary_in' = [device |-> "switch", key |-> None]
          /\ UNCHANGED <<door_is_closed, door_is_open, door_cell, door_emitted>>

\* -------------------------------------------------------------- the light
\* a light payload: None marks a missing key; power in whole watts
LightPayloads ==
    [switch : {None, True, False}, dimmvalue : {None, 0, 60}, power : {None, 0, 12}]

NoLightState ==
    [present |-> FALSE, switch |-> None, dimmvalue |-> None, power |-> None,
     raw |-> [switch |-> None, dimmvalue |-> None, power |-> None]]

LightState(switch, dimmvalue, power, raw) ==
    [present |-> TRUE, switch |-> switch, dimmvalue |-> dimmvalue, power |-> power,
     raw |-> raw]

\* mutant of InterpretDimmvalueFromPayload: a light that is off falls back to 99
InterpretDimmvalueFromPayload_NoRetain(prev, switch, p) ==
    IF ~dimmable THEN 99
    ELSE IF switch # True THEN 99
    ELSE IF p.dimmvalue # None THEN p.dimmvalue ELSE 99

\* Light.interpret_dimmvalue_from_payload, prev being self.state.value
InterpretDimmvalueFromPayload(prev, switch, p) ==
    IF ~dimmable THEN 99
    ELSE IF switch # True THEN (IF prev.present THEN prev.dimmvalue ELSE 99)
    ELSE IF p.dimmvalue # None THEN p.dimmvalue ELSE 99

\* mutant of LightHandleState: a light that is off or at 0 keeps its power
LightHandleState_KeepPower(prev, p) ==
    LET switch == IF p.switch # None THEN p.switch
                  ELSE IF prev.present THEN prev.switch ELSE False
        dimmvalue == InterpretDimmvalueFromPayload(prev, switch, p)
        merged_raw == [k \in DOMAIN prev.raw |-> IF p[k] # None THEN p[k] ELSE prev.raw[k]]
    IN IF p.switch = None /\ p.power = None /\ p.dimmvalue = None
       THEN [emits |-> FALSE, value |-> prev]
       ELSE [emits |-> TRUE,
             value |-> LightState(switch, dimmvalue,
                                  IF p.power # None THEN p.power ELSE prev.power,
                                  merged_raw)]

\* Light.handle_state on cell value prev: [emits, value]
LightHandleState(prev, p) ==
    LET prev_power == IF prev.present THEN prev.power ELSE None
        merged_raw == [k \in DOMAIN prev.raw |-> IF p[k] # None THEN p[k] ELSE prev.raw[k]]
        switch == IF p.switch # None THEN p.switch
                  ELSE IF prev.present THEN prev.switch ELSE False
        dimmvalue == InterpretDimmvalueFromPayload(prev, switch, p)
        power == IF p.power # None THEN p.power
                 ELSE IF switch # True \/ dimmvalue = 0 THEN 0
                 ELSE prev_power
    IN IF p.switch = None /\ p.power = None /\ p.dimmvalue = None
       THEN [emits |-> FALSE, value |-> prev]
       ELSE [emits |-> TRUE, value |-> LightState(switch, dimmvalue, power, merged_raw)]

NoCall == [called |-> FALSE]

\* the bridge delivers payload p to the light
LightUpdate(p) ==
    /\ light_state' = LightHandleState(light_state, p).value
    /\ light_prev' = light_state
    /\ light_in' = [called |-> TRUE, switch |-> p.switch, dimmvalue |-> p.dimmvalue,
                    power |-> p.power]
    /\ UNCHANGED dimmable

LightInit ==
    /\ light_state = NoLightState
    /\ dimmable \in BOOLEAN
    /\ light_prev = NoLightState
    /\ light_in = NoCall

LightStep == \E p \in LightPayloads : LightUpdate(p)

\* ---------------------------------------------------------------- RcTouch
\* RcTouch payloads: has_info is ("info" in payload), info its [text, value]
\* entries
RcTouchPayloads ==
    {[has_info |-> FALSE, info |-> <<>>]}
    \cup {[has_info |-> TRUE, info |-> i] : i \in
            {<<[text |-> "AMBIENT_TEMPERATURE", value |-> 21]>>,
             <<[text |-> "HUMIDITY", value |-> 50]>>,
             <<[text |-> "AMBIENT_TEMPERATURE", value |-> 21],
               [text |-> "HUMIDITY", value |-> 50]>>,
             <<[text |-> "HUMIDITY", value |-> 55],
               [text |-> "OTHER", value |-> 7],
               [text |-> "AMBIENT_TEMPERATURE", value |-> 22]>>,
             <<[text |-> "AMBIENT_TEMPERATURE", value |-> 22],
               [text |-> "HUMIDITY", value |-> NotNumeric]>>}}

NoRcTouchState == [present |-> FALSE, temperature |-> None, humidity |-> None]

RcTouchState(t, h) ==
    [present |-> TRUE, temperature |-> t, humidity |-> h]

\* the loop over payload["info"]: acc is [raised, temperature, humidity];
\* float() of a value that is not numeric raises ValueError
RECURSIVE RcTouchInfoLoop(_, _)
RcTouchInfoLoop(info, acc) ==
    IF info = <<>> \/ acc.raised THEN acc
    ELSE LET e == Head(info) IN
         IF e.text \in {"AMBIENT_TEMPERATURE", "HUMIDITY"} /\ e.value = NotNumeric
         THEN [acc EXCEPT !.raised = TRUE]
         ELSE IF e.text = "AMBIENT_TEMPERATURE"
         THEN RcTouchInfoLoop(Tail(info), [acc EXCEPT !.temperature = e.value])
         ELSE IF e.text = "HUMIDITY"
         THEN RcTouchInfoLoop(Tail(info), [acc EXCEPT !.humidity = e.value])
         ELSE RcTouchInfoLoop(Tail(info), acc)

\* mutant of RcTouchHandleState: one resolved field is enough to emit
RcTouchHandleState_Either(p) ==
    LET start == [raised |-> FALSE, temperature |-> None, humidity |-> None]
        acc == IF p.has_info THEN RcTouchInfoLoop(p.info, start) ELSE start
    IN [emits |-> (~acc.raised) /\ (acc.temperature # None \/ acc.humidity # None),
        value |-> RcTouchState(acc.temperature, acc.humidity)]

\* RcTouch.handle_state up to the emit: [emits, value]
RcTouchHandleState(p) ==
    LET start == [raised |-> FALSE, temperature |-> None, humidity |-> None]
        acc == IF p.has_info THEN RcTouchInfoLoop(p.info, start) ELSE start
    IN [emits |-> (~acc.raised) /\ acc.temperature # None /\ acc.humidity # None,
        value |-> RcTouchState(acc.temperature, acc.humidity)]

\* the bridge delivers payload p to the RcTouch
RcTouchUpdate(p) ==
    LET r == RcTouchHandleState(p)
    IN /\ rctouch_state' = IF r.emits THEN r.value ELSE rctouch_state
       /\ rctouch_prev' = rctouch_state
       /\ rctouch_in' = [called |-> TRUE, has_info |-> p.has_info, info |-> p.info]
       /\ rctouch_emits' = r.emits

\* the bridge delivers payload p to the heater, whose sensors were constructed
HeaterDeliver(p) ==
    /\ HeaterUpdate(p)
    /\ heater_prev' = heater_state
    /\ heater_in' = [called |-> TRUE, has_info |-> p.has_info, info |-> p.info,
                     dimmvalue |-> p.dimmvalue, power |-> p.power]
    /\ heater_emits' = HeaterHandleState(p).emits

ClimateInit ==
    /\ rctouch_state = NoRcTouchState
    /\ rctouch_prev = NoRcTouchState
    /\ rctouch_in = NoCall
    /\ rctouch_emits = FALSE
    /\ heater_prev = NoState
    /\ heater_in = NoCall
    /\ heater_emits = FALSE

\* =========================================================== Part IV
\* --------------------------------------- event.py: async_setup_entry
\* the rockers of the hub: 101..104 are the buttons of component 7, 105 is the
\* button of component 9, 106 names a component the bridge does not know
HubRockers == {101, 102, 103, 104, 105, 106}

\* device.payload.get("compId", "")
PayloadCompId == [d \in HubRockers |-> IF d <= 104 THEN 7 ELSE IF d = 105 THEN 9 ELSE 5]

\* bridge._comps: comp_id -> comp_type
Comps == [c \in {7, 9} |-> IF c = 7 THEN "PUSH_BUTTON_4_CHANNEL" ELSE "PUSH_BUTTON_1_CHANNEL"]

MULTI_CHANNEL_COMPONENTS ==
    {"PUSH_BUTTON_2_CHANNEL", "PUSH_BUTTON_4_CHANNEL",
     "PUSH_BUTTON_MULTI_SENSOR_2_CHANNEL", "PUSH_BUTTON_MULTI_SENSOR_4_CHANNEL"}

IsMultiChannelComponent(comp_type) == comp_type \in MULTI_CHANNEL_COMPONENTS

\* rockers_by_comp[c]: the rockers of component c in the order of the device list
RECURSIVE RockersByComp(_, _)
RockersByComp(devs, c) ==
    IF devs = <<>> THEN <<>>
    ELSE IF PayloadCompId[Head(devs)] = c
         THEN <<Head(devs)>> \o RockersByComp(Tail(devs), c)
         ELSE RockersByComp(Tail(devs), c)

RECURSIVE SortByDeviceId(_)

\* mutant of SortByDeviceId: the list keeps the order of the device list
SortByDeviceId_Unsorted(devs) == devs

\* comp_rockers.sort(key=lambda d: d.device_id)
SortByDeviceId(devs) ==
    IF devs = <<>> THEN <<>>
    ELSE LET i == CHOOSE i \in 1..Len(devs) : \A j \in 1..Len(devs) : devs[i] <= devs[j]
         IN <<devs[i]>> \o SortByDeviceId(SubSeq(devs, 1, i - 1) \o SubSeq(devs, i + 1, Len(devs)))

\* the loop "for idx, rocker in enumerate(comp_rockers)": the entities appended
RECURSIVE ButtonEvents(_, _)
ButtonEvents(comp_rockers, idx) ==
    IF idx >= Len(comp_rockers) THEN <<>>
    ELSE <<[device |-> comp_rockers[idx + 1], button_number |-> idx + 1]>>
         \o ButtonEvents(comp_rockers, idx + 1)

\* the loop "for device in hub.devices" from position i on: the entities, given
\* the entities evs and the set processed_rockers built so far
RECURSIVE ProcessRockers(_, _, _, _)
ProcessRockers(devs, i, evs, processed_rockers) ==
    IF i > Len(devs) THEN evs
    ELSE LET device == devs[i] IN
         IF device \in processed_rockers
         THEN ProcessRockers(devs, i + 1, evs, processed_rockers)
         ELSE IF PayloadCompId[device] \notin DOMAIN Comps
         THEN ProcessRockers(devs, i + 1, evs, processed_rockers)
         ELSE IF IsMultiChannelComponent(Comps[PayloadCompId[device]])
         THEN LET comp_rockers ==
                      SortByDeviceId(RockersByComp(devs, PayloadCompId[device]))
              IN ProcessRockers(devs, i + 1, evs \o ButtonEvents(comp_rockers, 0),
                                processed_rockers
                                  \cup {comp_rockers[k] : k \in 1..Len(comp_rockers)})
         ELSE ProcessRockers(devs, i + 1,
                             Append(evs, [device |-> device, button_number |-> None]),
                             processed_rockers \cup {device})

\* _wait_for_hub_then_setup, after the initial load
WaitForHubThenSetup ==
    /\ ~setup_done
    /\ events' = ProcessRockers(hub_devices, 1, <<>>, {})
    /\ setup_done' = TRUE
    /\ UNCHANGED <<hub_devices, rooms, heater_name, heater_room_mapping,
                   matched_room, built>>

\* the device list of the hub: the rockers in any order
DeviceLists(S) ==
    {f \in [1..Cardinality(S) -> S] : \A i, j \in 1..Cardinality(S) : f[i] = f[j] => i = j}

EventInit ==
    /\ hub_devices \in DeviceLists(HubRockers)
    /\ events = <<>>
    /\ setup_done = FALSE

\* ------------------------------------------ sensor.py: the room matcher
\* a name is a sequence of characters
PREFIXES ==
    <<<<"v", "a", "r", "m", "e", "k", "a", "b", "e", "l", " ">>,
      <<"p", "a", "n", "e", "l", "o", "v", "n", " ">>,
      <<"h", "e", "a", "t", "e", "r", " ">>>>

\* the names of rooms and heaters in this model
Names ==
    {<<"b", "a", "d">>,   \* "bad"
     <<"B", "a", "d", " ", "2">>,   \* "Bad 2"
     <<"h", "e", "a", "t", "e", "r", " ", "b", "a", "d">>,   \* "heater bad"
     <<" ", "H", "e", "a", "t", "e", "r", " ", "b", "a", "d", " ", "2", " ">>,   \* " Heater bad 2 "
     <<"p", "a", "n", "e", "l", "o", "v", "n", " ", "b", "e", "d">>,   \* "panelovn bed"
     <<"v", "a", "r", "m", "e", "k", "a", "b", "e", "l", " ", "h", "e", "a", "t", "e", "r", " ", "b", "a", "d">>,   \* "varmekabel heater bad"
     <<"b", "e", "d">>,   \* "bed"
     <<>>}   \* ""

\* str.lower, on the upper-case letters the names use
Lower(name) == [i \in 1..Len(name) |-> IF name[i] = "H" THEN "h"
                                       ELSE IF name[i] = "B" THEN "b" ELSE name[i]]

\* str.strip
RECURSIVE Strip(_)
Strip(name) ==
    IF name = <<>> THEN name
    ELSE IF Head(name) = " " THEN Strip(Tail(name))
    ELSE IF name[Len(name)] = " " THEN Strip(SubSeq(name, 1, Len(name) - 1))
    ELSE name

\* str.startswith
StartsWith(name, prefix) ==
    Len(prefix) <= Len(name) /\ SubSeq(name, 1, Len(prefix)) = prefix

\* the loop over prefixes in _normalize_name, from prefix i on
RECURSIVE StripPrefix(_, _)
StripPrefix(key, i) ==
    IF i > Len(PREFIXES) THEN key
    ELSE IF StartsWith(key, PREFIXES[i])
         THEN SubSeq(key, Len(PREFIXES[i]) + 1, Len(key))
         ELSE StripPrefix(key, i + 1)

\* _normalize_name
NormalizeName(name) == StripPrefix(Strip(Lower(name)), 1)

\* _build_room_lookup from room i on: the dict as its items in insertion
\* order; a key met again keeps its place and takes the later room
RECURSIVE BuildRoomLookup(_, _, _)
BuildRoomLookup(room_names, i, items) ==
    IF i > Len(room_names) THEN items
    ELSE LET key == NormalizeName(room_names[i])
             at == {k \in 1..Len(items) : items[k].key = key}
         IN BuildRoomLookup(room_names, i + 1,
                IF at = {} THEN Append(items, [key |-> key, room |-> i])
                ELSE [k \in 1..Len(items) |->
                        IF k \in at THEN [key |-> key, room |-> i] ELSE items[k]])

\* mutant of MatchRoomForHeater: the prefix search runs before the exact lookup
MatchRoomForHeater_PrefixFirst(rooms_by_key, name) ==
    LET heater_key == NormalizeName(name)
        near == {k \in 1..Len(rooms_by_key) :
                    \/ StartsWith(heater_key, rooms_by_key[k].key)
                    \/ StartsWith(rooms_by_key[k].key, heater_key)}
    IN IF near # {}
       THEN rooms_by_key[CHOOSE k \in near : \A j \in near : k <= j].room
       ELSE None

\* _match_room_for_heater
MatchRoomForHeater(rooms_by_key, name) ==
    LET heater_key == NormalizeName(name)
        exact == {k \in 1..Len(rooms_by_key) : rooms_by_key[k].key = heater_key}
        near == {k \in 1..Len(rooms_by_key) :
                    \/ StartsWith(heater_key, rooms_by_key[k].key)
                    \/ StartsWith(rooms_by_key[k].key, heater_key)}
    IN IF exact # {} THEN rooms_by_key[CHOOSE k \in exact : TRUE].room
       ELSE IF near # {}
       THEN rooms_by_key[CHOOSE k \in near : \A j \in near : k <= j].room
       ELSE None

\* _build_device_sensors for the heater: the room its power and energy sensors
\* are constructed with
BuildDeviceSensors ==
    /\ ~built
    /\ LET rooms_by_key == IF stale_protection THEN BuildRoomLookup(rooms, 1, <<>>)
                           ELSE <<>>
       IN matched_room' = IF stale_protection /\ rooms_by_key # <<>>
                          THEN MatchRoomForHeater(rooms_by_key, heater_name)
                          ELSE None
    /\ built' = TRUE
    /\ UNCHANGED <<hub_devices, events, setup_done, rooms, heater_name,
                   heater_room_mapping>>

\* the room list of the hub, the heater's name and the option the options flow
\* stored for the heater (_update_heater_mapping): a room, or None for "auto"
RoomLists == UNION {[1..n -> Names] : n \in 0..MaxRooms}

MatchInit ==
    /\ rooms \in RoomLists
    /\ heater_name \in Names
    /\ heater_room_mapping \in {None} \cup (1..Len(rooms))
    /\ matched_room = None
    /\ built = FALSE

QuietMatch ==
    /\ rooms = <<>>
    /\ heater_name = <<"b", "a", "d">>
    /\ heater_room_mapping = None
    /\ matched_room = None
    /\ built = FALSE

\* a hub without devices and without rooms
QuietEvents == hub_devices = <<>> /\ events = <<>> /\ setup_done = FALSE

\* ============================================================= Part V
\* ----------------------------------------------- the hub's initial load
\* the platforms whose async_setup_entry creates a _wait_for_hub_then_setup task
Platforms == {"binary_sensor", "climate", "sensor", "event", "scene", "switch"}

\* the three lists load_devices assigns, in this order
HubLists == <<"devices", "rooms", "scenes">>
AllLists == {"devices", "rooms", "scenes"}

\* XComfortHub.__init__: the event is clear, nothing is loaded, no task exists
HubInit ==
    /\ has_done_initial_load = FALSE
    /\ stored = {}
    /\ load_pc = 0
    /\ setup_pc = [p \in Platforms |-> "idle"]
    /\ seen = [p \in Platforms |-> None]
    /\ waited = [p \in Platforms |-> FALSE]
    /\ hub_op = "init"

\* mutant of WaitReturns: the task goes on whether or not the event is set
WaitReturns_Always(is_set) == TRUE

\* asyncio.Event.wait(): returns without suspending iff the event is set
WaitReturns(is_set) == is_set

\* what a set-up task does once wait() has returned: it reads the hub's lists
\* and builds its entities
BuildFromHub(p) ==
    /\ setup_pc' = [setup_pc EXCEPT ![p] = "built"]
    /\ seen' = [seen EXCEPT ![p] = stored]

\* async_setup_entry of the integration creates the load_devices task, which
\* runs up to its first await (get_devices)
LoadDevices ==
    /\ load_pc = 0
    /\ load_pc' = 1
    /\ hub_op' = "load"
    /\ UNCHANGED <<has_done_initial_load, stored, setup_pc, seen, waited>>

\* load_devices resumes: the awaited list is assigned; after the third one the
\* event is set, which resolves the wait() of every suspended task
LoadDevicesResume ==
    /\ load_pc \in 1..3
    /\ stored' = stored \cup {HubLists[load_pc]}
    /\ load_pc' = load_pc + 1
    /\ has_done_initial_load' = (load_pc = 3 \/ has_done_initial_load)
    /\ setup_pc' = [p \in Platforms |->
                      IF load_pc = 3 /\ setup_pc[p] = "waiting" THEN "woken"
                      ELSE setup_pc[p]]
    /\ hub_op' = "load"
    /\ UNCHANGED <<seen, waited>>

\* a platform's async_setup_entry creates its task, which runs up to wait()
\* and, if wait() returns at once, on to the end
WaitForHubThenSetupTask(p) ==
    /\ setup_pc[p] = "idle"
    /\ IF WaitReturns(has_done_initial_load)
       THEN BuildFromHub(p) /\ UNCHANGED waited
       ELSE /\ setup_pc' = [setup_pc EXCEPT ![p] = "waiting"]
            /\ waited' = [waited EXCEPT ![p] = TRUE]
            /\ UNCHANGED seen
    /\ hub_op' = "setup"
    /\ UNCHANGED <<has_done_initial_load, stored, load_pc>>

\* a task whose wait() was resolved is resumed
SetupResume(p) ==
    /\ setup_pc[p] = "woken"
    /\ BuildFromHub(p)
    /\ hub_op' = "setup"
    /\ UNCHANGED <<has_done_initial_load, stored, load_pc, waited>>

\* XComfortHub.stop up to its await: the event is cleared; a task already
\* resolved stays resolved
HubStop ==
    /\ hub_op # "stop"
    /\ has_done_initial_load' = FALSE
    /\ hub_op' = "stop"
    /\ UNCHANGED <<stored, load_pc, setup_pc, seen, waited>>

HubStep ==
    \/ LoadDevices
    \/ LoadDevicesResume
    \/ \E p \in Platforms : WaitForHubThenSetupTask(p)
    \/ \E p \in Platforms : SetupResume(p)
    \/ HubStop

\* ------------------------------------------ the room climate entity
ClimateModes == {"FrostProtection", "Eco", "Comfort"}
ClimateStates == {"Off", "HeatingAuto", "HeatingManual", "CoolingAuto", "CoolingManual"}

\* the preset_mode strings a caller may pass; "boost" is not supported
PresetNames == {"Frost Protection", "eco", "comfort", "boost"}

\* no ClimateMode, no ClimateState: a missing key of raw, an unsupported name
NoKey == "none"

\* a room state: the keys of raw and the parsed fields
RoomClimateStates ==
    [currentMode : {NoKey, "Eco"}, mode : {NoKey, "Comfort", "FrostProtection"},
     state : {NoKey, "Off", "HeatingAuto", "CoolingAuto"}, setpoint : {19},
     temperature : {None, 22}, humidity : {None}]

NoPresetCall ==
    [preset_mode |-> "none", mode |-> NoKey, new_state |-> NoKey, new_setpoint |-> None,
     old_preset |-> NoKey, old_state |-> NoKey, old_setpoint |-> None]

\* HASSXComfortRoomClimate.__init__
PresetInit ==
    /\ rctpreset = "Comfort"
    /\ rctstate = "Off"
    /\ currentsetpoint = 20
    /\ room_temperature = 20
    /\ room_humidity = 50
    /\ preset_pc = 0
    /\ preset_call = NoPresetCall
    /\ climate_sent = <<>>
    /\ room_between = FALSE
    /\ climate_op = "init"

\* the ClimateMode of a preset_mode string (NoKey: unsupported)
PresetModeOf(pm) ==
    IF pm = "Frost Protection" THEN "FrostProtection"
    ELSE IF pm = "eco" THEN "Eco"
    ELSE IF pm = "comfort" THEN "Comfort"
    ELSE NoKey

\* mutant of DefaultSetpoint: frost protection and eco swap their setpoints
DefaultSetpoint_Swapped(m) ==
    IF m = "FrostProtection" THEN 18 ELSE IF m = "Eco" THEN 8 ELSE 21

\* default_setpoints[mode]
DefaultSetpoint(m) ==
    IF m = "FrostProtection" THEN 8 ELSE IF m = "Eco" THEN 18 ELSE 21

\* new_state of async_set_preset_mode
PresetNewState(m, s) ==
    IF m = "FrostProtection" THEN "HeatingManual"
    ELSE IF s \in {"HeatingAuto", "HeatingManual"} THEN "HeatingManual"
    ELSE "CoolingManual"

\* mutant of PresetProceeds: the Off state does not stop the call
PresetProceeds_IgnoreOff(m, preset, s) == m # NoKey /\ preset # m

\* TRUE iff async_set_preset_mode gets as far as its first send_message
PresetProceeds(m, preset, s) == m # NoKey /\ preset # m /\ s # "Off"

\* the SET_HEATING_STATE payload
HeatingStatePayload(m, s, sp) == [mode |-> m, state |-> s, setpoint |-> sp]

\* _room_state_change
ClimateRoomStateChange(rs) ==
    /\ rctpreset' = IF rs.mode # NoKey THEN rs.mode
                    ELSE IF rs.currentMode # NoKey THEN rs.currentMode
                    ELSE rctpreset
    /\ rctstate' = IF rs.state # NoKey THEN rs.state ELSE rctstate
    /\ currentsetpoint' = rs.setpoint
    /\ room_temperature' = IF rs.temperature # None THEN rs.temperature
                           ELSE room_temperature
    /\ room_humidity' = IF rs.humidity # None THEN rs.humidity ELSE room_humidity
    /\ room_between' = (room_between \/ preset_pc # 0)
    /\ climate_op' = "room"
    /\ UNCHANGED <<preset_pc, preset_call, climate_sent>>

\* async_set_preset_mode(preset_mode) up to its return or its first await
AsyncSetPresetMode(pm) ==
    LET m == PresetModeOf(pm)
        ns == PresetNewState(m, rctstate)
    IN /\ preset_pc = 0
       /\ room_between' = FALSE
       /\ IF PresetProceeds(m, rctpreset, rctstate)
          THEN /\ preset_call' = [preset_mode |-> pm, mode |-> m, new_state |-> ns,
                                  new_setpoint |-> DefaultSetpoint(m),
                                  old_preset |-> rctpreset, old_state |-> rctstate,
                                  old_setpoint |-> currentsetpoint]
               /\ climate_sent' = <<HeatingStatePayload(rctpreset, ns, currentsetpoint)>>
               /\ preset_pc' = 1
               /\ climate_op' = "preset_send"
          ELSE /\ preset_call' = [preset_mode |-> pm, mode |-> m, new_state |-> NoKey,
                                  new_setpoint |-> None,
                                  old_preset |-> rctpreset, old_state |-> rctstate,
                                  old_setpoint |-> currentsetpoint]
               /\ climate_sent' = <<>>
               /\ preset_pc' = 0
               /\ climate_op' = "preset_return"
       /\ UNCHANGED <<rctpreset, rctstate, currentsetpoint, room_temperature,
                      room_humidity>>

\* the first send_message returns: step 2 up to the second await
PresetAfterFirstSend ==
    /\ preset_pc = 1
    /\ rctstate' = "HeatingManual"
    /\ climate_sent' = Append(climate_sent,
                              HeatingStatePayload(preset_call.mode, preset_call.new_state,
                                                  preset_call.new_setpoint))
    /\ preset_pc' = 2
    /\ climate_op' = "preset_send"
    /\ UNCHANGED <<rctpreset, currentsetpoint, room_temperature, room_humidity,
                   preset_call, room_between>>

\* the second send_message returns: the entity takes the new preset
PresetAfterSecondSend ==
    /\ preset_pc = 2
    /\ rctpreset' = preset_call.mode
    /\ rctstate' = preset_call.new_state
    /\ currentsetpoint' = preset_call.new_setpoint
    /\ preset_pc' = 0
    /\ climate_op' = "preset_done"
    /\ UNCHANGED <<room_temperature, room_humidity, preset_call, climate_sent,
                   room_between>>

PresetStep ==
    \/ \E rs \in RoomClimateStates : ClimateRoomStateChange(rs)
    \/ \E pm \in PresetNames : AsyncSetPresetMode(pm)
    \/ PresetAfterFirstSend
    \/ PresetAfterSecondSend

\* the devices before their first payload, the platforms before their set-up
NotHandled == [device |-> "none", bare |-> FALSE]

DeviceInit ==
    /\ ShadeInit /\ ApplianceInit /\ LightInit /\ ClimateInit /\ DoorInit
    /\ handled = NotHandled
    /\ QuietEvents /\ QuietMatch
    /\ HubInit /\ PresetInit

\* ---------------------------------------------------------- specifications
\* the watchdog, next to rockers that receive no payload
\* the options every specification but its own keeps fixed
QuietWatchdog == WatchdogInit /\ stale_protection /\ room
QuietRockers == CellInit /\ sensor_device[2] = None
QuietDevices == DeviceInit /\ supports_go_to /\ dimmable

Init == WatchdogInit /\ QuietRockers /\ QuietDevices

Next == WatchdogNext /\ UNCHANGED <<cvars, dvars>>

Spec == Init /\ [][Next]_vars

\* the rockers' cells, next to a watchdog that receives no input
CellSpecInit == QuietWatchdog /\ CellInit /\ QuietDevices

CellNext == CellStep /\ UNCHANGED <<wvars, dvars>>

CellSpec == CellSpecInit /\ [][CellNext]_vars

\* the rockers' cells with their event entities
ButtonSpecInit == QuietWatchdog /\ CellInit /\ QuietDevices

ButtonNext == ButtonStep /\ UNCHANGED <<wvars, dvars>>

ButtonSpec == ButtonSpecInit /\ [][ButtonNext]_vars

\* the rockers' cells under payloads that may carry "nan"
LoopSpecInit == QuietWatchdog /\ CellInit /\ QuietDevices

LoopNext == LoopStep /\ UNCHANGED <<wvars, dvars>>

LoopSpec == LoopSpecInit /\ [][LoopNext]_vars

\* construction and resolution of the rockers, in any arrival order
ResolveSpecInit == QuietWatchdog /\ ResolveInit /\ QuietDevices

ResolveNext == ResolveStep /\ UNCHANGED <<wvars, dvars>>

ResolveSpec == ResolveSpecInit /\ [][ResolveNext]_vars

\* the shade: payloads and movement commands
ShadeSpecInit == QuietWatchdog /\ QuietRockers /\ DeviceInit /\ dimmable

ShadeNext == ShadeStep /\ UNCHANGED <<wvars, cvars, avars, lvars, tvars, hvars, bvars, handled, pvars, uvars, kvars>>

ShadeSpec == ShadeSpecInit /\ [][ShadeNext]_vars

\* emitted snapshots and their holders: the shade's payloads, the appliance
\* and its switch entity
SnapshotSpecInit == QuietWatchdog /\ QuietRockers /\ QuietDevices

SnapshotNext ==
    \/ (\E p \in ShadePayloads : ShadeUpdate(p)) /\ UNCHANGED <<wvars, cvars, avars, lvars, tvars, hvars, bvars, handled, pvars, uvars, kvars>>
    \/ ApplianceStep /\ UNCHANGED <<wvars, cvars, svars, lvars, tvars, hvars, bvars, handled, pvars, uvars, kvars>>

SnapshotSpec == SnapshotSpecInit /\ [][SnapshotNext]_vars

\* the light's reducer, for a dimmable and for a plain light
LightSpecInit == QuietWatchdog /\ QuietRockers /\ DeviceInit /\ supports_go_to

LightNext == LightStep /\ UNCHANGED <<wvars, cvars, svars, avars, tvars, hvars, bvars, handled, pvars, uvars, kvars>>

LightSpec == LightSpecInit /\ [][LightNext]_vars

\* the reducers of RcTouch and Heater
ClimateSpecInit == QuietWatchdog /\ QuietRockers /\ QuietDevices

ClimateNext ==
    \/ (\E p \in RcTouchPayloads : RcTouchUpdate(p))
          /\ UNCHANGED <<wvars, cvars, svars, avars, lvars, hvars, bvars, handled, pvars, uvars, kvars>>
    \/ (\E p \in HeaterPayloads : HeaterDeliver(p))
          /\ UNCHANGED <<cvars, svars, avars, lvars, tvars, bvars, handled, pvars, uvars, kvars>>

ClimateSpec == ClimateSpecInit /\ [][ClimateNext]_vars

\* the boolean devices: the door / window sensor and the appliance
BinarySpecInit == QuietWatchdog /\ QuietRockers /\ QuietDevices

BinaryNext == BinaryStep /\ UNCHANGED <<wvars, cvars, svars, lvars, tvars, hvars, handled, pvars, uvars, kvars>>

BinarySpec == BinarySpecInit /\ [][BinaryNext]_vars

\* the five reducers, each handed a payload without any field it recognises
\* or a payload with one
BareShade == [curstate |-> None, shSafety |-> None, shPos |-> None]
BareLight == [switch |-> None, dimmvalue |-> None, power |-> None]
BareClimate == [has_info |-> FALSE, info |-> <<>>]
BareHeater == HeaterPayload(FALSE, <<>>, None, None)
BareRocker == [curstate |-> None, has_info |-> FALSE, info |-> <<>>]

PayloadSpecInit == QuietWatchdog /\ CellInit /\ QuietDevices

PayloadNext ==
    \/ \E p \in {BareShade, [BareShade EXCEPT !.shPos = 40]} :
          /\ ShadeUpdate(p)
          /\ handled' = [device |-> "shade", bare |-> p = BareShade]
          /\ UNCHANGED <<wvars, cvars, avars, lvars, tvars, hvars, bvars, pvars, uvars, kvars>>
    \/ \E p \in {BareLight, [BareLight EXCEPT !.switch = True]} :
          /\ LightUpdate(p)
          /\ handled' = [device |-> "light", bare |-> p = BareLight]
          /\ UNCHANGED <<wvars, cvars, svars, avars, tvars, hvars, bvars, pvars, uvars, kvars>>
    \/ \E p \in {BareClimate,
                  [has_info |-> TRUE,
                   info |-> <<[text |-> "AMBIENT_TEMPERATURE", value |-> 21],
                              [text |-> "HUMIDITY", value |-> 50]>>]} :
          /\ RcTouchUpdate(p)
          /\ handled' = [device |-> "rctouch", bare |-> p = BareClimate]
          /\ UNCHANGED <<wvars, cvars, svars, avars, lvars, hvars, bvars, pvars, uvars, kvars>>
    \/ \E p \in {BareHeater, HeaterPayload(FALSE, <<>>, None, 6)} :
          /\ HeaterDeliver(p)
          /\ handled' = [device |-> "heater", bare |-> p = BareHeater]
          /\ UNCHANGED <<cvars, svars, avars, lvars, tvars, bvars, pvars, uvars, kvars>>
    \/ \E r \in Rockers, p \in {BareRocker, [BareRocker EXCEPT !.curstate = 1]} :
          /\ RockerUpdate(r, p)
          /\ handled' = [device |-> "rocker", bare |-> p = BareRocker]
          /\ UNCHANGED <<wvars, svars, avars, lvars, tvars, hvars, bvars, pvars, uvars, kvars>>

PayloadSpec == PayloadSpecInit /\ [][PayloadNext]_vars

\* the set-up of the event platform, for every order of the hub's device list
EventSpecInit ==
    /\ QuietWatchdog /\ QuietRockers
    /\ ShadeInit /\ ApplianceInit /\ LightInit /\ ClimateInit /\ DoorInit
    /\ supports_go_to /\ dimmable
    /\ handled = NotHandled
    /\ EventInit /\ QuietMatch
    /\ HubInit /\ PresetInit

EventNext ==
    WaitForHubThenSetup
      /\ UNCHANGED <<wvars, cvars, svars, avars, lvars, tvars, hvars, bvars, handled,
                     uvars, kvars>>

EventSpec == EventSpecInit /\ [][EventNext]_vars

\* the set-up of the heater's sensors, for every room list, heater name and option
MatchSpecInit ==
    /\ WatchdogInit /\ room /\ QuietRockers
    /\ ShadeInit /\ ApplianceInit /\ LightInit /\ ClimateInit /\ DoorInit
    /\ supports_go_to /\ dimmable
    /\ handled = NotHandled
    /\ QuietEvents /\ MatchInit
    /\ HubInit /\ PresetInit

MatchNext ==
    BuildDeviceSensors
      /\ UNCHANGED <<wvars, cvars, svars, avars, lvars, tvars, hvars, bvars, handled,
                     uvars, kvars>>

MatchSpec == MatchSpecInit /\ [][MatchNext]_vars

\* the hub's initial load next to the platforms' set-up tasks
HubSpecInit == QuietWatchdog /\ QuietRockers /\ QuietDevices

HubNext ==
    HubStep /\ UNCHANGED <<wvars, cvars, svars, avars, lvars, tvars, hvars, bvars, handled,
                            pvars, kvars>>

HubSpec == HubSpecInit /\ [][HubNext]_vars

\* the room climate entity under room updates and preset calls
PresetSpecInit == QuietWatchdog /\ QuietRockers /\ QuietDevices

PresetNext ==
    PresetStep /\ UNCHANGED <<wvars, cvars, svars, avars, lvars, tvars, hvars, bvars,
                               handled, pvars, uvars>>

PresetSpec == PresetSpecInit /\ [][PresetNext]_vars

\* the host scheduler keeps delivering registered ticks, and time passes
FairSpec ==
    /\ Spec
    /\ WF_vars(AdvanceTime /\ UNCHANGED <<cvars, dvars>>)
    /\ WF_vars(Tick("power") /\ UNCHANGED <<cvars, dvars>>)
    /\ WF_vars(Tick("energy") /\ UNCHANGED <<cvars, dvars>>)

\* ------------------------------------------------------------ properties
Threshold == FALLBACK_POWER_THRESHOLD_W
Window == FALLBACK_ZERO_WINDOW_SEC

\* the last input was a room update carrying a power reading
RoomReadingEvent == lastEvent.kind = "room" /\ lastEvent.power # None
\* the last input was a heater snapshot carrying a power reading
HeaterReadingEvent == lastEvent.kind = "heater" /\ lastEvent.power # None

\* C1: a step that turns forcedZero from false to true is a room update or a
\* tick, and in its resulting state roomZeroSince is set, at least the window
\* has elapsed since it, every room reading since then was <= threshold (the
\* current run of low readings began no later than roomZeroSince) and the last
\* known heater power is above the threshold.
C1_ForcedOnlyAfterWindow ==
    [][\A s \in Sensors :
          (~forced_zero[s] /\ forced_zero'[s]) =>
             /\ lastEvent'.kind \in {"room", "tick"}
             /\ room_zero_since'[s] # None
             /\ now' - room_zero_since'[s] >= Window
             /\ lowRunStart' # None
             /\ lowRunStart' <= room_zero_since'[s]
             /\ PowerOf(state'[s]) # None
             /\ PowerOf(state'[s]) > Threshold
             /\ lastHeaterPowerW' > Threshold]_vars

C1_Witness ==
    /\ lastEvent.kind = "tick"
    /\ lastEvent.sensor = "power"
    /\ ~lastEvent.was_forced
    /\ forced_zero["power"]
    /\ now - room_zero_since["power"] >= Window

\* the trigger condition of sensor s on the power of the latest heater snapshot
TriggerDue(s) ==
    /\ room_zero_since[s] # None
    /\ now - room_zero_since[s] >= Window
    /\ PowerOf(state[s]) # None
    /\ PowerOf(state[s]) > Threshold

\* C2 as stated: after any room update, heater update or tick (of that sensor)
\* the trigger has been applied: roomZeroSince set, window elapsed and last
\* known heater power above the threshold imply forcedZero.
C2_Original ==
    \A s \in Sensors :
       (lastEvent.kind \in {"heater", "room"}
          \/ (lastEvent.kind = "tick" /\ lastEvent.sensor = s))
       => ((/\ room_zero_since[s] # None
            /\ now - room_zero_since[s] >= Window
            /\ lastHeaterPowerW # None
            /\ lastHeaterPowerW > Threshold) => forced_zero[s])

\* C2 (amended): after a room update that carries a power reading, and after a
\* tick of the sensor, roomZeroSince set, window elapsed and the latest heater
\* snapshot's power above the threshold imply forcedZero; a heater update does
\* not evaluate the trigger.
C2_TriggerOnRoomAndTick ==
    \A s \in Sensors :
       (RoomReadingEvent \/ (lastEvent.kind = "tick" /\ lastEvent.sensor = s))
       => (TriggerDue(s) => forced_zero[s])

C2_Witness ==
    /\ RoomReadingEvent
    /\ ~lastEvent.was_forced
    /\ TriggerDue("power")
    /\ forced_zero["power"]

\* C3 as stated: forcedZero turns from true to false only in a step in which the
\* heater reports power <= threshold.
C3_Original ==
    [][\A s \in Sensors :
          (forced_zero[s] /\ ~forced_zero'[s]) =>
             (lastEvent'.kind = "heater" /\ lastEvent'.power # None
                /\ lastEvent'.power <= Threshold)]_vars

\* C3 (amended): forcedZero turns from true to false only when the heater
\* reports power <= threshold or the room reports power > threshold; it stays
\* true across room readings <= threshold, ticks and other heater payloads.
C3_ClearedOnlyByHeaterLowOrRoomHigh ==
    [][\A s \in Sensors :
          (forced_zero[s] /\ ~forced_zero'[s]) =>
             \/ (lastEvent'.kind = "heater" /\ lastEvent'.power # None
                   /\ lastEvent'.power <= Threshold)
             \/ (lastEvent'.kind = "room" /\ lastEvent'.power # None
                   /\ lastEvent'.power > Threshold)]_vars

C3_Witness ==
    /\ RoomReadingEvent
    /\ lastEvent.power <= Threshold
    /\ lastEvent.was_forced
    /\ forced_zero["power"]

\* C4: right after a room reading above the threshold was processed,
\* roomZeroSince is absent and forcedZero is false, for both sensors.
C4_RoomAboveClears ==
    (RoomReadingEvent /\ lastEvent.power > Threshold) =>
        \A s \in Sensors : room_zero_since[s] = None /\ ~forced_zero[s]

C4_Witness ==
    /\ RoomReadingEvent
    /\ lastEvent.power > Threshold
    /\ lastEvent.was_forced
    /\ ~forced_zero["power"]
    /\ room_zero_since["power"] = None

\* C5: right after a heater reading <= threshold forcedZero is false, and it is
\* false in every state in which the last known heater power is <= threshold.
C5_HeaterLowKeepsUnforced ==
    \A s \in Sensors :
       /\ (HeaterReadingEvent /\ lastEvent.power <= Threshold) => ~forced_zero[s]
       /\ (lastHeaterPowerW # None /\ lastHeaterPowerW <= Threshold) => ~forced_zero[s]

C5_Witness ==
    /\ HeaterReadingEvent
    /\ lastEvent.power <= Threshold
    /\ lastEvent.was_forced
    /\ ~forced_zero["power"]
    /\ TriggerDue("power") = FALSE
    /\ room_zero_since["power"] # None
    /\ now - room_zero_since["power"] >= Window

\* C6 as stated: the published power is 0 when forcedZero, otherwise the last
\* heater power reading received.
C6_Original ==
    PowerNativeValue = IF forced_zero["power"] THEN 0 ELSE lastHeaterPowerW

\* C6 (amended): the published power is 0 when forcedZero, otherwise the power
\* field of the heater's latest snapshot, absent when that snapshot carries no
\* power or the heater has not emitted yet.
C6_PublishedIsLatestSnapshotPower ==
    PowerNativeValue = IF forced_zero["power"] THEN 0 ELSE PowerOf(heater_state)

C6_Witness ==
    /\ lastHeaterPowerW # None
    /\ heater_state.present
    /\ heater_state.power = None
    /\ ~forced_zero["power"]
    /\ PowerNativeValue = None

\* the largest value the clock reaches
Horizon == 1 + ((MaxTime - 1) \div TimeStep) * TimeStep

\* sensor s has a registered tick, roomZeroSince set early enough for the window
\* to elapse within the horizon, and a heater power above the threshold
Armed(s) ==
    /\ unsub_tick[s]
    /\ room_zero_since[s] # None
    /\ room_zero_since[s] + Window <= Horizon
    /\ PowerOf(state[s]) # None
    /\ PowerOf(state[s]) > Threshold

C8_Original ==
    [][(update_time' # update_time \/ lastEvent'.kind = "read") =>
          (PowerOf(state'["energy"]) # None => consumption' = consumption + owed)]_vars

\* C9: a callback subscribed after k >= 1 emits was invoked first with the k-th
\* value, then exactly once with each later emission, and never with an
\* earlier one (received lists the emission numbers in the order of the calls).
C9_ReplayThenLive ==
    \A e \in Entities :
       (subscribed_at[e] # None /\ subscribed_at[e] >= 1) =>
          /\ Len(received[e]) = emitted[e] - subscribed_at[e] + 1
          /\ received[e][1] = subscribed_at[e]
          /\ {received[e][i] : i \in 1..Len(received[e])} = subscribed_at[e]..emitted[e]

C9_Witness ==
    \E e \in Entities :
       /\ subscribed_at[e] # None
       /\ subscribed_at[e] >= 2
       /\ emitted[e] >= subscribed_at[e] + 1
       /\ received[e][1] = subscribed_at[e]

C11_Original == ~reentered

\* the number of subscriptions rocker r holds on the rockers' cells
SubscriptionsOf(r) ==
    LET count(c) == Cardinality({i \in 1..Len(observers[c]) :
                                    observers[c][i] = RockerObserver(r)})
    IN count(1) + count(2)

\* C12: a rocker holds at most one subscription on a companion's cell, on the
\* cell of the companion it bound; the resolver run on a bound rocker changes
\* nothing (no subscription, no emission); a bound companion never changes
C12_SingleStableBinding ==
    /\ [](\A r \in Rockers :
            /\ SubscriptionsOf(r) = IF sensor_device[r] = None THEN 0 ELSE 1
            /\ sensor_device[r] # None =>
                  /\ \E i \in 1..Len(observers[sensor_device[r]]) :
                        observers[sensor_device[r]][i] = RockerObserver(r)
                  /\ FindAndSubscribeSensorDevice(CellState, r) = CellState)
    /\ [][\A r \in Rockers :
             sensor_device[r] # None => sensor_device'[r] = sensor_device[r]]_vars

\* a rocker bound at construction (after its component and its companion
\* arrived) that has since handled payloads
C12_Witness ==
    \E r \in Rockers :
       /\ sensor_device[r] # None
       /\ Len(comp_observers) = 2
       /\ emitted[r] >= 2

\* C13: once a rocker's component and companion are registered, the first
\* construction, component update or handled payload of the rocker binds it
C13_Original ==
    \A r \in Rockers : attempted[r] => sensor_device[r] # None

\* C14: an emitted snapshot is never modified afterwards: the shade's first
\* snapshot still reads as it did when it was emitted, and the snapshot the
\* appliance's cell holds reads as it did when it was emitted
C14_Original ==
    /\ shade_cell => ShadeFields(shade_state) = shade_snapshot
    /\ appliance_cell.present => appliance_cell.is_on = appliance_emitted

\* C15: position, currentStateCode and safetyEnabled each equal what the most
\* recent payload carrying the field gave (absent if none did); isClosed is
\* null for an unknown position or one strictly between 0 and 100, true at
\* 100 and false at 0
C15_ShadeAccumulates ==
    /\ shade_state.position = shade_mentioned.shPos
    /\ shade_state.current_state = shade_mentioned.curstate
    /\ shade_state.is_safety_enabled =
          (IF shade_mentioned.shSafety = None THEN None
           ELSE IF shade_mentioned.shSafety = 0 THEN False ELSE True)
    /\ IsClosed(shade_state) =
          (IF shade_mentioned.shPos = 100 THEN True
           ELSE IF shade_mentioned.shPos = 0 THEN False
           ELSE None)

\* the accumulation of the spec's example: first position 40 with safety
\* unknown, in the end position 100 with safety on
C15_Witness ==
    /\ shade_op = "handle_state"
    /\ shade_snapshot.position = 40
    /\ shade_snapshot.is_safety_enabled = None
    /\ shade_state.position = 100
    /\ shade_state.is_safety_enabled = True
    /\ shade_state.current_state = None
    /\ IsClosed(shade_state) = True

\* C16: from a state in which safetyEnabled is true no step hands a message
\* to the transport
C16_NoSendUnderSafety ==
    [][shade_state.is_safety_enabled = True => sent' = sent]_vars

\* a movement command was called under safety, after an earlier one went out
C16_Witness ==
    /\ shade_state.is_safety_enabled = True
    /\ shade_op \in {"move_up", "move_down", "move_stop", "move_to_position"}
    /\ Len(sent) = 1

\* the last light payload carried at least one of switch, power, dimmvalue
LightPayloadCounts ==
    /\ light_in.called
    /\ light_in.switch # None \/ light_in.power # None \/ light_in.dimmvalue # None

\* C17: the emitted powerW is the payload's power if present; else 0 if the
\* resulting switchOn is false or the resulting dimValue is 0; else the prior
\* powerW.  Prior (on, 60, 12 W) with {switch: false} gives (off, 60, 0 W)
C17_LightPower ==
    LightPayloadCounts =>
       /\ light_state.present
       /\ light_state.power =
             (IF light_in.power # None THEN light_in.power
              ELSE IF light_state.switch = False \/ light_state.dimmvalue = 0 THEN 0
              ELSE light_prev.power)
       /\ (/\ light_prev.present
           /\ light_prev.switch = True /\ light_prev.dimmvalue = 60 /\ light_prev.power = 12
           /\ light_in.switch = False /\ light_in.power = None /\ light_in.dimmvalue = None)
          => (/\ light_state.switch = False
              /\ light_state.dimmvalue = 60
              /\ light_state.power = 0)

\* the spec's example has happened
C17_Witness ==
    /\ LightPayloadCounts
    /\ light_prev.present
    /\ light_prev.switch = True /\ light_prev.dimmvalue = 60 /\ light_prev.power = 12
    /\ light_in.switch = False /\ light_in.power = None /\ light_in.dimmvalue = None
    /\ light_state.power = 0

\* C18: for a dimmable light with a known prior state, a payload without
\* dimmvalue leaves dimValue at its prior value and a payload without switch
\* leaves switchOn at its prior value
C18_Original ==
    (dimmable /\ light_in.called /\ light_prev.present) =>
       /\ light_in.dimmvalue = None => light_state.dimmvalue = light_prev.dimmvalue
       /\ light_in.switch = None => light_state.switch = light_prev.switch

\* what the last heater payload resolves, a value that is not numeric
\* counting as an absent field
HeaterResolvesTemperature ==
    /\ heater_in.has_info
    /\ \E i \in 1..Len(heater_in.info) :
          heater_in.info[i].text = "DEVICE_TEMPERATURE" /\ heater_in.info[i].value # NotNumeric
HeaterResolvesDemand ==
    \/ heater_in.dimmvalue # None
    \/ /\ heater_in.has_info
       /\ \E i \in 1..Len(heater_in.info) :
             heater_in.info[i].text = "DIMM_VALUE" /\ heater_in.info[i].value # NotNumeric
HeaterResolvesPower == heater_in.power # None

\* C19: Heater.handle_state emits iff the payload resolves at least one of
\* device temperature, heating demand and power; in the emitted snapshot the
\* fields the payload did not resolve are null; a payload resolving none
\* leaves the cell's value unchanged
C19_Original ==
    heater_in.called =>
       IF HeaterResolvesTemperature \/ HeaterResolvesDemand \/ HeaterResolvesPower
       THEN /\ heater_emits
            /\ heater_state.present
            /\ (heater_state.device_temperature = None) <=> ~HeaterResolvesTemperature
            /\ (heater_state.heating_demand = None) <=> ~HeaterResolvesDemand
            /\ (heater_state.power = None) <=> ~HeaterResolvesPower
       ELSE /\ ~heater_emits
            /\ heater_state = heater_prev

\* what the last RcTouch payload resolves
RcTouchResolves(text) ==
    /\ rctouch_in.has_info
    /\ \E i \in 1..Len(rctouch_in.info) :
          rctouch_in.info[i].text = text /\ rctouch_in.info[i].value # NotNumeric

\* C20: RcTouch.handle_state emits only when temperature and humidity both
\* resolve from the payload; otherwise nothing is emitted and the cell keeps
\* its value; no emitted snapshot lacks temperature or humidity
C20_EmitsOnlyWithBoth ==
    /\ rctouch_in.called =>
          /\ rctouch_emits =>
                RcTouchResolves("AMBIENT_TEMPERATURE") /\ RcTouchResolves("HUMIDITY")
          /\ ~(RcTouchResolves("AMBIENT_TEMPERATURE") /\ RcTouchResolves("HUMIDITY")) =>
                ~rctouch_emits /\ rctouch_state = rctouch_prev
    /\ rctouch_state.present =>
          rctouch_state.temperature # None /\ rctouch_state.humidity # None

\* a payload with a temperature alone was dropped, the cell keeping a snapshot
C20_Witness ==
    /\ rctouch_in.called
    /\ RcTouchResolves("AMBIENT_TEMPERATURE")
    /\ ~RcTouchResolves("HUMIDITY")
    /\ ~rctouch_emits
    /\ rctouch_state.present
    /\ rctouch_state = rctouch_prev

\* C21: a call of _on_sensor_device_update that parsed the values its rocker had
\* cached emits nothing on the rocker's cell; a call during which the rocker's
\* cell emitted had parsed a temperature or a humidity that differed
C21_EmitsOnlyOnChange ==
    \A i \in 1..Len(calls) :
        /\ calls[i].same => ~calls[i].emits
        /\ calls[i].emits => ~calls[i].same /\ calls[i].known

\* rocker 2, holding a temperature, was handed the same temperature again and
\* kept silent, after an earlier handler in which a changed value made it emit
C21_Witness ==
    /\ \E i \in 1..Len(calls) :
          calls[i].rocker = 2 /\ calls[i].same /\ calls[i].known /\ ~calls[i].emits
    /\ temperature[2] # None
    /\ emitted[2] >= 1

\* C22: an appliance payload without "switch" and a door / window payload
\* without "curstate" emit nothing and change no stored state; a payload with
\* the key replaces the boolean and emits it
C22_Original ==
    [][/\ (binary_in'.device = "appliance" /\ binary_in'.key = None)
           => UNCHANGED <<appliance_cell, appliance_emitted>>
       /\ (binary_in'.device = "appliance" /\ binary_in'.key # None)
           => appliance_cell' = [present |-> TRUE, is_on |-> binary_in'.key]
       /\ (binary_in'.device = "door" /\ binary_in'.key = None)
           => UNCHANGED <<door_cell, door_emitted, door_is_closed, door_is_open>>
       /\ (binary_in'.device = "door" /\ binary_in'.key # None)
           => /\ door_is_closed' = IF binary_in'.key = 1 THEN True ELSE False
              /\ door_cell' = [present |-> TRUE, value |-> door_is_closed']
              /\ door_emitted' = door_emitted + 1]_vars

\* C23: a payload with none of the fields its device recognises raises no
\* error, emits nothing and leaves the cell and the cached fields as they were,
\* for Light, Heater, RcTouch, Rocker and Shade
C23_Original ==
    [][handled'.bare =>
         /\ handled'.device = "light" => light_state' = light_state
         /\ handled'.device = "heater" => heater_state' = heater_state /\ ~heater_emits'
         /\ handled'.device = "rctouch" => rctouch_state' = rctouch_state /\ ~rctouch_emits'
         /\ handled'.device = "rocker" =>
               /\ ~raised'
               /\ UNCHANGED <<rocker_state, emitted, is_on, temperature, humidity, payload>>
         /\ handled'.device = "shade" => UNCHANGED <<shade_state, shade_cell>>]_vars

\* an info array without its entries whose value is not numeric
IsNumeric(e) == e.value # NotNumeric
NumericEntries(info) == SelectSeq(info, IsNumeric)

\* C24: an info entry whose value is not numeric counts as absent: the last
\* Heater.handle_state and the last RcTouch.handle_state emitted, and left in
\* the cell, what the same payload without such entries gives
C24_Original ==
    /\ heater_in.called =>
          LET r == HeaterHandleState(HeaterPayload(heater_in.has_info,
                                                   NumericEntries(heater_in.info),
                                                   heater_in.dimmvalue, heater_in.power))
          IN /\ heater_emits = r.emits
             /\ heater_state = IF r.emits THEN r.value ELSE heater_prev
    /\ rctouch_in.called =>
          LET r == RcTouchHandleState([has_info |-> rctouch_in.has_info,
                                       info |-> NumericEntries(rctouch_in.info)])
          IN /\ rctouch_emits = r.emits
             /\ rctouch_state = IF r.emits THEN r.value ELSE rctouch_prev

\* C25: with stale protection off, or on without a matched room, forcedZero is
\* false on the power and the energy sensor and the published power is the power
\* of the heater's own snapshot; whatever the options, the temperature and the
\* heating-demand sensor publish the fields of the heater's snapshot
C25_PassThrough ==
    /\ ~(stale_protection /\ room) =>
          /\ \A s \in Sensors : ~forced_zero[s]
          /\ PowerNativeValue = PowerOf(heater_state)
    /\ ReadingNativeValue("temperature") =
          (IF heater_state.present THEN heater_state.device_temperature ELSE None)
    /\ ReadingNativeValue("heating_demand") =
          (IF heater_state.present THEN heater_state.heating_demand ELSE None)

\* stale protection is on but no room was matched; the room has reported at
\* most the threshold for a full window while the heater's snapshot reads more,
\* a tick or room reading would have forced zero, and the readings are published
C25_Witness ==
    /\ stale_protection /\ ~room
    /\ lastEvent.kind = "room"
    /\ lowRunStart # None
    /\ now - lowRunStart >= Window
    /\ PowerOf(heater_state) # None
    /\ PowerOf(heater_state) > Threshold
    /\ PowerNativeValue = PowerOf(heater_state)
    /\ ReadingNativeValue("temperature") # None
    /\ lifecycle["power"] = "added"

\* C26: once a watchdog sensor has been removed from the host, no emission of
\* the heater's or the room's cell reaches it: its forcedZero, roomZeroSince
\* and cached state change no more
C26_Original ==
    [][\A s \in Sensors :
          lifecycle[s] = "removed" =>
             /\ forced_zero'[s] = forced_zero[s]
             /\ room_zero_since'[s] = room_zero_since[s]
             /\ state'[s] = state[s]]_vars

\* C27: a removed watchdog sensor gets no tick; a sensor holds a registered
\* tick only while it is added, it registers one only on being added, and the
\* removal of a sensor that registered none changes nothing but its lifecycle
C27_TickCancelled ==
    [][\A s \in Sensors :
          /\ lifecycle[s] = "removed" =>
                /\ ~unsub_tick[s]
                /\ ~(lastEvent'.kind = "tick" /\ lastEvent'.sensor = s)
          /\ unsub_tick[s] => lifecycle[s] = "added"
          /\ (~unsub_tick[s] /\ unsub_tick'[s]) =>
                lifecycle[s] = "created" /\ lifecycle'[s] = "added"
          /\ (lifecycle[s] = "added" /\ lifecycle'[s] = "removed" /\ ~unsub_tick[s]) =>
                UNCHANGED <<unsub_tick, state, forced_zero, room_zero_since,
                            consumption, update_time>>]_vars

\* the power sensor registered its tick, was removed, and the energy sensor's
\* tick was delivered afterwards
C27_Witness ==
    /\ lifecycle["power"] = "removed"
    /\ ~unsub_tick["power"]
    /\ stale_protection /\ room
    /\ unsub_tick["energy"]
    /\ lastEvent.kind = "tick"
    /\ lastEvent.sensor = "energy"

\* the rockers of component c in the hub's device list, and the entities made
\* for rocker d
MembersOf(c) == {d \in HubRockers : PayloadCompId[d] = c}
EventsOf(d) == {k \in 1..Len(events) : events[k].device = d}

\* C28: after set-up every rocker of a multi-channel component has exactly one
\* event entity, its button number is its rank among the component's rockers
\* by ascending device id (so the numbers are 1..N, no two alike), whatever the
\* order of the hub's device list
C28_ButtonsByDeviceId ==
    setup_done =>
       \A c \in DOMAIN Comps :
          IsMultiChannelComponent(Comps[c]) =>
             \A d \in MembersOf(c) :
                /\ Cardinality(EventsOf(d)) = 1
                /\ \A k \in EventsOf(d) :
                      events[k].button_number
                        = Cardinality({m \in MembersOf(c) : m <= d})

\* the device list brought the rockers of component 7 in the order 103, 101,
\* 104, 102 and they were numbered 3, 1, 4, 2
C28_Witness ==
    /\ setup_done
    /\ SubSeq(hub_devices, 1, 4) = <<103, 101, 104, 102>>
    /\ \E k \in 1..Len(events) : events[k] = [device |-> 103, button_number |-> 3]
    /\ \E k \in 1..Len(events) : events[k] = [device |-> 101, button_number |-> 1]
    /\ \E k \in 1..Len(events) : events[k] = [device |-> 104, button_number |-> 4]
    /\ \E k \in 1..Len(events) : events[k] = [device |-> 102, button_number |-> 2]

\* the normalized names of the heater and of room i; the rooms whose normalized
\* name equals the heater's, and those of which one is a prefix of the other
HeaterKey == NormalizeName(heater_name)
RoomKey(i) == NormalizeName(rooms[i])
ExactRooms == {i \in 1..Len(rooms) : RoomKey(i) = HeaterKey}
PrefixRooms ==
    {i \in 1..Len(rooms) :
        StartsWith(HeaterKey, RoomKey(i)) \/ StartsWith(RoomKey(i), HeaterKey)}

\* name without its first n characters
Drop(name, n) == SubSeq(name, n + 1, Len(name))

\* C29: with stale protection on, the heater is matched with a room whose
\* normalized name equals its own whenever there is one; otherwise with a room
\* whose normalized name is a prefix of its own or has it as a prefix; with no
\* room when there is neither.  A normalized name is the lower-cased, trimmed
\* name, less one known prefix if it starts with one, and nothing else
C29_MatcherExactThenPrefix ==
    /\ (built /\ stale_protection) =>
          /\ ExactRooms # {} => matched_room \in ExactRooms
          /\ (ExactRooms = {} /\ PrefixRooms # {}) => matched_room \in PrefixRooms
          /\ (ExactRooms = {} /\ PrefixRooms = {}) => matched_room = None
    /\ \A name \in Names \cup {rooms[i] : i \in 1..Len(rooms)} :
          LET key == Strip(Lower(name))
              known == {i \in 1..Len(PREFIXES) : StartsWith(key, PREFIXES[i])}
          IN IF known = {} THEN NormalizeName(name) = key
             ELSE \E i \in known : NormalizeName(name) = Drop(key, Len(PREFIXES[i]))

\* the heater " Heater bad 2 " and the rooms "bad", "Bad 2": both rooms are
\* prefix matches, the first in the list is not the exact one, and the heater
\* was matched with the second
C29_Witness ==
    /\ built /\ stale_protection
    /\ heater_name = <<" ", "H", "e", "a", "t", "e", "r", " ", "b", "a", "d", " ", "2", " ">>
    /\ rooms = <<<<"b", "a", "d">>, <<"B", "a", "d", " ", "2">>>>
    /\ ExactRooms = {2}
    /\ PrefixRooms = {1, 2}
    /\ matched_room = 2

\* C30: a heater for which the options hold a room is paired with that room,
\* not with the room its name matches
C30_Original ==
    (built /\ stale_protection /\ heater_room_mapping # None)
       => matched_room = heater_room_mapping

\* C31: on the power and on the energy sensor forcedZero is true only while
\* roomZeroSince is set
C31_ForcedImpliesSince ==
    \A s \in Sensors : forced_zero[s] => room_zero_since[s] # None

\* both sensors are forced, and a heater snapshot reading above the threshold
\* has arrived since: the flags and roomZeroSince are still there
C31_Witness ==
    /\ \A s \in Sensors : forced_zero[s] /\ room_zero_since[s] # None
    /\ lastEvent.kind = "heater"
    /\ lastEvent.power # None
    /\ lastEvent.power > Threshold

\* C32: after every room update, heater update and tick the power sensor and
\* the energy sensor of the heater hold the same forcedZero, so that the
\* energy sensor integrates 0 W exactly while the power sensor publishes 0 W
C32_Original ==
    (lastEvent.kind \in {"room", "heater", "tick"})
       => forced_zero["power"] = forced_zero["energy"]

\* C33: the handling of one payload ends after a bounded number of emissions:
\* no handler nests its on_next calls up to the recursion limit, whatever
\* temperature and humidity values the rockers have cached and receive
C33_Original == ~overflow

\* C34: once a rocker's event entity has subscribed it has triggered exactly
\* one event for each handle_state call delivered to the rocker since then:
\* none for the value replayed at subscription, none for a re-emission caused
\* by the companion's temperature or humidity
C34_Original ==
    \A r \in Rockers : event_subscribed[r] => Len(triggered[r]) = delivered[r]

\* C35: the event is set only when devices, rooms and scenes are all stored,
\* a platform that has built its entities read the hub when all three were
\* stored, and right after stop() the event is clear
C35_BuildAfterLoad ==
    /\ has_done_initial_load => stored = AllLists
    /\ \A p \in Platforms : setup_pc[p] = "built" => seen[p] = AllLists
    /\ hub_op = "stop" => ~has_done_initial_load

\* a platform whose task was suspended in wait() has built its entities, and
\* stop() has cleared the event after the load
C35_Witness ==
    /\ \E p \in Platforms : setup_pc[p] = "built" /\ waited[p]
    /\ hub_op = "stop" /\ load_pc = 4

\* C36: a call of async_set_preset_mode made while the state is Off, or with
\* the preset in force, or with an unsupported name, has sent no message and
\* left preset, state and setpoint as they were
C36_RejectedCallChangesNothing ==
    (/\ climate_op \in {"preset_return", "preset_send"}
     /\ \/ preset_call.old_state = "Off"
        \/ preset_call.preset_mode \notin {"Frost Protection", "eco", "comfort"}
        \/ (preset_call.preset_mode = "Frost Protection" /\ preset_call.old_preset = "FrostProtection")
        \/ (preset_call.preset_mode = "eco" /\ preset_call.old_preset = "Eco")
        \/ (preset_call.preset_mode = "comfort" /\ preset_call.old_preset = "Comfort"))
    => /\ climate_op = "preset_return"
       /\ climate_sent = <<>>
       /\ preset_pc = 0
       /\ rctpreset = preset_call.old_preset
       /\ rctstate = preset_call.old_state
       /\ currentsetpoint = preset_call.old_setpoint

\* a call with another preset was made while the state was Off
C36_Witness ==
    /\ climate_op = "preset_return"
    /\ preset_call.old_state = "Off"
    /\ preset_call.preset_mode = "eco"
    /\ preset_call.old_preset = "FrostProtection"

\* the preset a name stands for and the manual state a call aims at
C37_Requested ==
    IF preset_call.preset_mode = "Frost Protection" THEN "FrostProtection"
    ELSE IF preset_call.preset_mode = "eco" THEN "Eco" ELSE "Comfort"
C37_Target ==
    IF C37_Requested = "FrostProtection"
       \/ preset_call.old_state \in {"HeatingAuto", "HeatingManual"}
    THEN "HeatingManual" ELSE "CoolingManual"
C37_Default ==
    IF C37_Requested = "FrostProtection" THEN 8
    ELSE IF C37_Requested = "Eco" THEN 18 ELSE 21

\* C37: a completed call of async_set_preset_mode has sent exactly two messages,
\* first the old preset with the manual target state and the setpoint at call
\* time, then the new preset with that state and its default setpoint, and the
\* entity holds the new preset, the target state and the default setpoint,
\* whether or not a room state update was processed in between
C37_TwoMessagesThenNewPreset ==
    climate_op = "preset_done" =>
       /\ climate_sent = <<[mode |-> preset_call.old_preset, state |-> C37_Target,
                            setpoint |-> preset_call.old_setpoint],
                          [mode |-> C37_Requested, state |-> C37_Target,
                           setpoint |-> C37_Default]>>
       /\ rctpreset = C37_Requested
       /\ rctstate = C37_Target
       /\ currentsetpoint = C37_Default

\* a call to a cooling room completed with a room state update in between
C37_Witness ==
    /\ climate_op = "preset_done"
    /\ room_between
    /\ preset_call.old_state = "CoolingAuto"
    /\ preset_call.preset_mode = "eco"
====
